---- MODULE Spec2Model ----
(***************************************************************************)
(* A model of the question-answering service of rag-with-eval: the         *)
(* POST /ask handler and the retrieval orchestrator behind it              *)
(* (QARetriever.answer_question) with its user-name cache, the ingestion   *)
(* pipeline and its indexing_state, the cross-encoder reranker's score     *)
(* handling, the QueryAnalyzer (query classification and confidence        *)
(* scoring) and the EvaluationEngine (judge reply parsing, the five        *)
(* metrics and their aggregate).                                           *)
(*                                                                         *)
(* Spec is the pipeline over a fixed index, SpecService the handler with   *)
(* ingestion runs and overlapping requests, SpecIngestion the ingestion    *)
(* runs with GET /health, and SpecAnalyzer, SpecReranker and               *)
(* SpecEvaluation are single calls of the component named.  SpecFetch is   *)
(* the loop of fetch_all_messages, one pass per step, and SpecFetchFair    *)
(* the same with every pass that has begun completed.                      *)
(*                                                                         *)
(* Numbers are fixed point.  Similarities and factors are hundredths       *)
(* (0.5 is 50), confidence contributions and average scores are            *)
(* ten-thousandths (0.06 is 600), evaluation scores are thousandths and    *)
(* reranker scores are float32 values held as bit patterns.  Text is a     *)
(* sequence of one-character strings so that lower-casing, stripping and   *)
(* substring search are computed, not assumed.                             *)
(***************************************************************************)
EXTENDS Integers, Sequences, FiniteSets, TLC

----------------------------------------------------------------------------
(* Bounds of the model *)

\* Largest number of messages the vector index holds.
MaxIndexSize == 3

\* Number of questions answered in one behaviour.
MaxRequests == 2

----------------------------------------------------------------------------
(* Text: str.lower() and the `in` substring test *)

UpperLetters ==
    <<"A","B","C","D","E","F","G","H","I","J","K","L","M",
      "N","O","P","Q","R","S","T","U","V","W","X","Y","Z">>

LowerLetters ==
    <<"a","b","c","d","e","f","g","h","i","j","k","l","m",
      "n","o","p","q","r","s","t","u","v","w","x","y","z">>

\* One character of str.lower().
LowerChar(c) ==
    IF \E i \in DOMAIN UpperLetters : UpperLetters[i] = c
    THEN LowerLetters[CHOOSE i \in DOMAIN UpperLetters : UpperLetters[i] = c]
    ELSE c

\* str.lower()
Lower(text) == [i \in DOMAIN text |-> LowerChar(text[i])]

\* The characters str.strip() removes.
Whitespace == { " ", "\t", "\n", "\r" }

\* str.strip()
RECURSIVE Strip(_)
Strip(text) ==
    IF text = <<>> THEN <<>>
    ELSE IF text[1] \in Whitespace THEN Strip(Tail(text))
    ELSE IF text[Len(text)] \in Whitespace
         THEN Strip(SubSeq(text, 1, Len(text) - 1))
    ELSE text

\* keyword in text: keyword occurs as a contiguous substring of text.
Contains(keyword, text) ==
    \E i \in 1..(Len(text) - Len(keyword) + 1) :
        SubSeq(text, i, i + Len(keyword) - 1) = keyword

----------------------------------------------------------------------------
(* Keyword tables *)

\* QueryAnalyzer.USER_SPECIFIC_KEYWORDS: the analyzer's user-intent keyword set.
USER_SPECIFIC_KEYWORDS ==
    { <<"s","u","m","m","a","r","i","z","e">>,
      <<"s","u","m","m","a","r","i","s","e">>,
      <<"m","e","s","s","a","g","e","s">>,
      <<"s","a","i","d">>,
      <<"s","a","y">>,
      <<"r","e","q","u","e","s","t">>,
      <<"r","e","q","u","e","s","t","s">>,
      <<"a","s","k","e","d">>,
      <<"a","s","k">>,
      <<"v","i","s","i","t","e","d">>,
      <<"v","i","s","i","t">>,
      <<"p","l","a","c","e","s">>,
      <<"t","r","a","v","e","l">>,
      <<"m","e","n","t","i","o","n","e","d">>,
      <<"m","e","n","t","i","o","n">>,
      <<"t","a","l","k","e","d"," ","a","b","o","u","t">>,
      <<"d","i","s","c","u","s","s","e","d">>,
      <<"s","p","o","k","e">>,
      <<"s","h","a","r","e","d">>,
      <<"c","o","m","m","e","n","t","e","d">> }

\* QueryAnalyzer.FACTUAL_KEYWORDS.
FACTUAL_KEYWORDS ==
    { <<"h","o","w"," ","m","a","n","y">>,
      <<"h","o","w"," ","m","u","c","h">>,
      <<"c","o","u","n","t">>,
      <<"n","u","m","b","e","r">>,
      <<"t","o","t","a","l">>,
      <<"w","h","e","n">>,
      <<"w","h","e","r","e">>,
      <<"w","h","a","t"," ","t","i","m","e">>,
      <<"w","h","i","c","h">>,
      <<"l","i","s","t">>,
      <<"n","a","m","e">> }

\* QueryAnalyzer.COMPARISON_KEYWORDS.
COMPARISON_KEYWORDS ==
    { <<"c","o","m","p","a","r","e">>,
      <<"c","o","n","t","r","a","s","t">>,
      <<"d","i","f","f","e","r","e","n","c","e">>,
      <<"s","i","m","i","l","a","r">>,
      <<"u","n","l","i","k","e">>,
      <<"v","e","r","s","u","s">>,
      <<"v","s">>,
      <<"b","e","t","w","e","e","n">>,
      <<"b","o","t","h">>,
      <<"e","i","t","h","e","r">>,
      <<"r","a","t","h","e","r"," ","t","h","a","n">>,
      <<"i","n","s","t","e","a","d"," ","o","f">> }

\* The orchestrator's own keyword list, local to answer_question.
user_specific_keywords ==
    << <<"s","u","m","m","a","r","i","z","e">>,
      <<"s","u","m","m","a","r","i","s","e">>,
      <<"m","e","s","s","a","g","e","s">>,
      <<"s","a","i","d">>,
      <<"s","a","y">>,
      <<"r","e","q","u","e","s","t">>,
      <<"r","e","q","u","e","s","t","s">>,
      <<"a","s","k","e","d">>,
      <<"a","s","k">>,
      <<"v","i","s","i","t","e","d">>,
      <<"v","i","s","i","t">>,
      <<"p","l","a","c","e","s">>,
      <<"t","r","a","v","e","l">> >>

----------------------------------------------------------------------------
(* The questions the model asks *)

\* "Summarize Amira": an intent keyword of both lists, capitalised.
QSummarize == <<"S","u","m","m","a","r","i","z","e"," ","A","m","i","r","a">>

\* "What was discussed": an intent keyword of the analyzer's set only.
QDiscussed == <<"W","h","a","t"," ","w","a","s"," ","d","i","s","c","u","s","s","e","d">>

\* "Compare them": a comparison keyword only.
QCompare == <<"C","o","m","p","a","r","e"," ","t","h","e","m">>

\* "How many cars": a factual keyword only.
QHowMany == <<"H","o","w"," ","m","a","n","y"," ","c","a","r","s">>

\* "Essays on art": "say" occurs inside "essays".
QEssays == <<"E","s","s","a","y","s"," ","o","n"," ","a","r","t">>

\* "Hello there": no keyword at all.
QHello == <<"H","e","l","l","o"," ","t","h","e","r","e">>

\* "Both SHARED it": comparison keyword and analyzer-only intent keyword, upper case.
QBothShared == <<"B","o","t","h"," ","S","H","A","R","E","D"," ","i","t">>

\* "When to visit": factual keyword and intent keyword of both lists.
QWhenVisit == <<"W","h","e","n"," ","t","o"," ","v","i","s","i","t">>


\* Every question of the model.
Questions ==
    { QSummarize, QDiscussed, QCompare, QHowMany,
      QEssays, QHello, QBothShared, QWhenVisit }

\* The questions put to the orchestrator.
PipelineQuestions == { QSummarize, QDiscussed, QEssays, QHello }

----------------------------------------------------------------------------
(* Generic helpers *)

Max(a, b) == IF a >= b THEN a ELSE b

Min(a, b) == IF a <= b THEN a ELSE b

Abs(a) == IF a >= 0 THEN a ELSE 0 - a

\* Python's None, and a present optional value.
None == <<>>

Some(v) == <<v>>

RECURSIVE SumSeq(_)
SumSeq(s) == IF s = <<>> THEN 0 ELSE s[1] + SumSeq(Tail(s))

\* The elements of a sequence.
Range(s) == { s[i] : i \in DOMAIN s }

\* sorted(pairs, key=lambda x: x[key], reverse=True): stable, so pairs with
\* equal keys keep their original order.  A pair <<key, item>> comes behind
\* the pairs with a greater key and the earlier pairs with an equal key.
SortedDesc(pairs) ==
    LET before(i) == { j \in DOMAIN pairs :
                          \/ pairs[j][1] > pairs[i][1]
                          \/ pairs[j][1] = pairs[i][1] /\ j < i }
    IN  [r \in DOMAIN pairs |->
            pairs[CHOOSE i \in DOMAIN pairs : Cardinality(before(i)) = r - 1]]

----------------------------------------------------------------------------
(* External collaborators: embedder and vector index *)

\* An embedding is a direction in the plane, in steps of ten degrees.
Embeddings == 0..9

\* cos(10 * d degrees) in hundredths, d = 0..9.
CosineTable == <<100, 98, 94, 87, 77, 64, 50, 34, 17, 0>>

\* np.dot(q, n) / (norm(q) * norm(n))
CosineSimilarity(a, b) == CosineTable[Abs(a - b) + 1]

\* A vector handed to the index is <<direction>>; the all-zero probe vector of
\* the cache initialisation has no direction.
dummy_vector == <<>>

UserNames == { "Amira", "Layla", "Omar" }

\* embed_texts on a user name.
NameEmbedding(user_name) ==
    CASE user_name = "Amira" -> 0
      [] user_name = "Layla" -> 1
      [] user_name = "Omar"  -> 8

\* The embeddings embed_single may return for a question.
QuestionEmbeddings == { 0, 4, 7, 9 }

\* Every message that can be in the corpus.
AllMessages ==
    { [id |-> 1, user_name |-> "Amira", emb |-> 0],
      [id |-> 2, user_name |-> "Amira", emb |-> 5],
      [id |-> 3, user_name |-> "Layla", emb |-> 1],
      [id |-> 4, user_name |-> "Omar",  emb |-> 8] }

\* The score the index gives a stored message for a query vector.  The probe
\* vector has no direction: every message scores 0 against it.
MatchScore(vector, m) ==
    IF vector = dummy_vector THEN 0 ELSE CosineSimilarity(vector[1], m.emb)

\* The ids of a set of messages in ascending order.
RECURSIVE ById(_)
ById(ms) ==
    IF ms = {} THEN <<>>
    ELSE LET m == CHOOSE x \in ms : \A y \in ms : x.id <= y.id
         IN  <<m>> \o ById(ms \ {m})

\* index.query(vector, top_k, filter): the stored messages (of one user when a
\* filter is given) in descending order of score, at most top_k of them.
Matches(idx, vector, top_k, filter_user_name) ==
    LET kept   == { m \in idx : filter_user_name = None
                                \/ m.user_name = filter_user_name[1] }
        byId   == ById(kept)
        sorted == SortedDesc([i \in DOMAIN byId |->
                                 <<MatchScore(vector, byId[i]), byId[i]>>])
    IN  SubSeq(sorted, 1, Min(top_k, Len(sorted)))

\* VectorStore.search: one RetrievedContext per match, ranked 1.. in the
\* order the index returns them, not yet reranked.
Search(idx, vector, top_k, filter_user_name) ==
    LET matches == Matches(idx, vector, top_k, filter_user_name)
    IN  [i \in DOMAIN matches |->
            [message          |-> matches[i][2],
             similarity_score |-> matches[i][1],
             reranker_score   |-> None,
             rank             |-> i]]

----------------------------------------------------------------------------
(* CrossEncoderReranker *)

\* The raw scores the cross-encoder may give a (question, message) pair.
RawScores == { 0, 2 }

\* 1.0 / (1.0 + np.exp(-raw)) on the float32 array that predict returns, for
\* some raw scores: <<raw, result, thousandths>>.  The result is written as
\* the bit pattern of the float32 (for floats that are not negative the bit
\* patterns are ordered as the floats are; 0.0 is 0, 0.5 is 1056964608, 1.0
\* is 1065353216); the third entry is the result rounded to thousandths.
\* exp(89) exceeds the largest float32, and 1 + exp(-17) rounds to 1.
SigmoidTable ==
    << <<-90, 0, 0>>,
       <<-89, 0, 0>>,
       <<-88, 4320708, 0>>,
       <<-20, 822977587, 0>>,
       <<-18, 847434517, 0>>,
       <<-17, 858902297, 0>>,
       <<-16, 871475931, 0>>,
       <<-2, 1039409321, 119>>,
       <<-1, 1049211569, 269>>,
       <<0, 1056964608, 500>>,
       <<1, 1060841128, 731>>,
       <<2, 1063353322, 881>>,
       <<16, 1065353214, 1000>>,
       <<17, 1065353216, 1000>>,
       <<18, 1065353216, 1000>>,
       <<20, 1065353216, 1000>>,
       <<88, 1065353216, 1000>>,
       <<89, 1065353216, 1000>>,
       <<90, 1065353216, 1000>> >>

\* The raw scores of the table.
RawScoreSamples == { SigmoidTable[i][1] : i \in DOMAIN SigmoidTable }

\* The table as a function of the raw score.
SigmoidOf ==
    [raw \in RawScoreSamples |->
        (CHOOSE i \in DOMAIN SigmoidTable : SigmoidTable[i][1] = raw)]

\* The normalisation with the sign of the exponent lost.
Sigmoid_Negated(raw) == SigmoidTable[SigmoidOf[0 - raw]][2]

Sigmoid(raw) == SigmoidTable[SigmoidOf[raw]][2]

\* A normalised score in thousandths.
Thousandths(score) ==
    SigmoidTable[CHOOSE i \in DOMAIN SigmoidTable : SigmoidTable[i][2] = score][3]

\* rerank with the ranks left as the searches numbered them.
rerank_KeepsRanks(contexts, scores, top_k) ==
    IF contexts = <<>> THEN <<>>
    ELSE LET scored == [i \in DOMAIN contexts |->
                          [contexts[i] EXCEPT
                              !.reranker_score = Some(Sigmoid(scores[i]))]]
             sorted == SortedDesc([i \in DOMAIN scored |->
                          <<scored[i].reranker_score[1], scored[i]>>])
         IN  [i \in DOMAIN sorted |-> sorted[i][2]]

\* CrossEncoderReranker.rerank: attach the normalised score to every context,
\* sort by it (descending, stable), renumber the ranks, cut at top_k if one
\* is given.
rerank(contexts, scores, top_k) ==
    IF contexts = <<>> THEN <<>>
    ELSE LET scored   == [i \in DOMAIN contexts |->
                            [contexts[i] EXCEPT
                                !.reranker_score = Some(Sigmoid(scores[i]))]]
             sorted   == SortedDesc([i \in DOMAIN scored |->
                            <<scored[i].reranker_score[1], scored[i]>>])
             reranked == [i \in DOMAIN sorted |->
                            [sorted[i][2] EXCEPT !.rank = i]]
         IN  IF top_k # None /\ top_k[1] # 0
             THEN SubSeq(reranked, 1, Min(top_k[1], Len(reranked)))
             ELSE reranked

----------------------------------------------------------------------------
(* QueryAnalyzer *)

\* any(keyword in question_lower for keyword in keywords)
AnyKeywordIn(keywords, question_lower) ==
    \E keyword \in keywords : Contains(keyword, question_lower)

QueryTypes == { "multi_user", "user_specific", "comparison", "factual", "general" }

\* _determine_query_type with the keyword rules tried before the mentions.
determine_query_type_KeywordsFirst(question_lower, mentioned_users, sources_from_user) ==
    IF AnyKeywordIn(COMPARISON_KEYWORDS, question_lower) THEN "comparison"
    ELSE IF AnyKeywordIn(FACTUAL_KEYWORDS, question_lower) THEN "factual"
    ELSE IF Len(mentioned_users) > 1 THEN "multi_user"
    ELSE IF Len(mentioned_users) = 1 /\ sources_from_user THEN "user_specific"
    ELSE IF AnyKeywordIn(USER_SPECIFIC_KEYWORDS, question_lower) THEN "user_specific"
    ELSE "general"

\* QueryAnalyzer._determine_query_type
determine_query_type(question_lower, mentioned_users, sources_from_user) ==
    IF Len(mentioned_users) > 1 THEN "multi_user"
    ELSE IF Len(mentioned_users) = 1 /\ sources_from_user THEN "user_specific"
    ELSE IF AnyKeywordIn(COMPARISON_KEYWORDS, question_lower) THEN "comparison"
    ELSE IF AnyKeywordIn(FACTUAL_KEYWORDS, question_lower) THEN "factual"
    ELSE IF AnyKeywordIn(USER_SPECIFIC_KEYWORDS, question_lower) THEN "user_specific"
    ELSE "general"

\* The step function with strict comparisons.
source_factor_Strict(num_sources) ==
    IF num_sources > 10 THEN 100
    ELSE IF num_sources > 5 THEN 80
    ELSE IF num_sources > 3 THEN 60
    ELSE IF num_sources > 2 THEN 40
    ELSE 20

\* Factor 1: the step function on the number of sources, in hundredths.
source_factor(num_sources) ==
    IF num_sources >= 10 THEN 100
    ELSE IF num_sources >= 5 THEN 80
    ELSE IF num_sources >= 3 THEN 60
    ELSE IF num_sources >= 2 THEN 40
    ELSE 20

\* Factor 2: min(avg_reranker_score, 1.0), in thousandths.
reranker_factor(avg_reranker_score) == Min(avg_reranker_score, 1000)

\* Factor 3: query-type specificity, in hundredths.
query_factor(query_type, sources_from_specific_user) ==
    IF query_type = "user_specific" /\ sources_from_specific_user THEN 95
    ELSE IF query_type = "user_specific" THEN 70
    ELSE IF query_type = "factual" THEN 75
    ELSE IF query_type = "comparison" THEN 80
    ELSE 60

\* Factor 4: source consistency, in hundredths.
consistency_factor(num_sources) == IF num_sources < 2 THEN 40 ELSE 80

\* The four weighted contributions, in ten-thousandths: weights 0.3, 0.3,
\* 0.2 and 0.2.
confidence_factors(num_sources, avg_reranker_score, query_type, sources_from_specific_user) ==
    [source_count      |-> source_factor(num_sources) * 30,
     reranker_quality  |-> reranker_factor(avg_reranker_score) * 3,
     query_specificity |-> query_factor(query_type, sources_from_specific_user) * 20,
     consistency       |-> consistency_factor(num_sources) * 20]

\* The sum returned as it is, not clamped.
Clamp_None(confidence) == confidence

\* min(max(confidence, 0.0), 1.0), in ten-thousandths.
Clamp(confidence) == Min(Max(confidence, 0), 10000)

\* QueryAnalyzer.calculate_confidence_score: the clamped sum of the factors,
\* with the factors.
calculate_confidence_score(num_sources, avg_reranker_score, query_type, sources_from_specific_user) ==
    LET factors == confidence_factors(num_sources, avg_reranker_score,
                                      query_type, sources_from_specific_user)
    IN  [confidence |-> Clamp(factors.source_count + factors.reranker_quality
                              + factors.query_specificity + factors.consistency),
         factors    |-> factors]

\* QueryAnalyzer._generate_tips: the sentences of the tip text, by name.
generate_tips(query_type, mentioned_users, num_sources) ==
    LET band == IF num_sources < 2 THEN "low_confidence"
                ELSE IF num_sources < 5 THEN "moderate_confidence"
                ELSE "good_confidence"
        tip  == IF query_type = "user_specific" /\ mentioned_users = <<>>
                THEN <<"mention_a_user">>
                ELSE IF query_type = "factual" /\ num_sources < 3
                THEN <<"rephrase">>
                ELSE IF query_type = "comparison" /\ Len(mentioned_users) < 2
                THEN <<"mention_users_to_compare">>
                ELSE IF query_type = "general" /\ num_sources < 3
                THEN <<"be_more_specific">>
                ELSE <<>>
    IN  <<band>> \o tip

\* QueryAnalyzer.analyze_query: lower-case the question, classify it, build
\* the metadata and the tips.
analyze_query(question, mentioned_users, num_sources, sources_from_user) ==
    LET query_type == determine_query_type(Lower(question), mentioned_users,
                                           sources_from_user)
    IN  [query_type     |-> query_type,
         query_metadata |-> [query_type         |-> query_type,
                             mentioned_users    |-> mentioned_users,
                             confidence_factors |-> <<>>],
         tips           |-> generate_tips(query_type, mentioned_users, num_sources)]

----------------------------------------------------------------------------
(* Mention detection *)

\* The (similarity, user name) pairs of the cached names, in cache order.
user_similarities(cache, question_embedding) ==
    [i \in DOMAIN cache |->
        <<CosineSimilarity(question_embedding, cache[i][2]), cache[i][1]>>]

\* The threshold without its floor of 0.5.
min_threshold_NoFloor(top_similarity) == top_similarity - 20

\* max(0.5, top_similarity - 0.2), in hundredths.
min_threshold(top_similarity) == Max(50, top_similarity - 20)

\* The scan of the sorted similarities from position i: a name at or above
\* the threshold is appended unless already there, the first one below it
\* ends the scan.
RECURSIVE ScanMentions(_, _, _, _)
ScanMentions(sorted, i, threshold, mentioned) ==
    IF i > Len(sorted) THEN mentioned
    ELSE IF sorted[i][1] >= threshold
         THEN ScanMentions(sorted, i + 1, threshold,
                           IF sorted[i][2] \in Range(mentioned)
                           THEN mentioned
                           ELSE Append(mentioned, sorted[i][2]))
         ELSE mentioned

\* The names the question is taken to mention, closest match first.
detect_mentioned_users(cache, question_embedding) ==
    LET sorted == SortedDesc(user_similarities(cache, question_embedding))
    IN  IF sorted = <<>> THEN <<>>
        ELSE ScanMentions(sorted, 1, min_threshold(sorted[1][1]), <<>>)

\* is_user_specific_query: the orchestrator's own keyword test.
is_user_specific(question) ==
    LET query_lower == Lower(question)
    IN  \E i \in DOMAIN user_specific_keywords :
            Contains(user_specific_keywords[i], query_lower)

\* user_counts: per user, the number of contexts, in order of first appearance.
RECURSIVE count_users(_, _)
count_users(contexts, counts) ==
    IF contexts = <<>> THEN counts
    ELSE LET user_name == contexts[1].message.user_name
             seen      == { i \in DOMAIN counts : counts[i][2] = user_name }
         IN  count_users(Tail(contexts),
                 IF seen = {}
                 THEN Append(counts, <<1, user_name>>)
                 ELSE [i \in DOMAIN counts |->
                          IF i \in seen THEN <<counts[i][1] + 1, user_name>>
                          ELSE counts[i]])

\* sorted(user_counts.items(), key=count, reverse=True)[0]: the most
\* frequent user and that user's count.
top_user(counts) == SortedDesc(counts)[1][2]

top_count(counts) == SortedDesc(counts)[1][1]

\* user_ratio > 0.5, with user_ratio = top_count / len(initial_contexts), or
\* 0 when there are no contexts.
dominates(counts, contexts) ==
    /\ contexts # <<>>
    /\ 2 * top_count(counts) > Len(contexts)

----------------------------------------------------------------------------
(* Configuration and requests *)

\* Settings.top_k_initial_retrieval as deployed: the default, or a small
\* value set through the environment.
TopKInitialDefault == 100

TopKInitialChoices == { 2, TopKInitialDefault }

\* The top_k of the per-user retrievals.
ExhaustiveTopK == 500

\* The top_k of the probe that samples the user names.
ProbeTopK == 1000

\* The number of sources kept when the request names none.
DefaultMaxSources == 30

\* QuestionRequest.max_sources: absent, or a number from 1 to 500.
MaxSourcesChoices == { None, Some(2) }

\* QuestionRequest
Requests ==
    [question            : PipelineQuestions,
     include_sources     : BOOLEAN,
     include_evaluations : BOOLEAN,
     max_sources         : MaxSourcesChoices]

\* Bodies of POST /ask that do not reach answer_question: the empty
\* question, and a question of five blanks.
QEmpty == <<>>

QBlank == <<" ", " ", " ", " ", " ">>

RejectedRequests ==
    [question            : { QEmpty, QBlank },
     include_sources     : { FALSE },
     include_evaluations : { TRUE },
     max_sources         : { None }]

\* The requests sent while the index is filled: two questions, no sources,
\* no evaluation, no limit.
ServiceRequests ==
    [question            : { QSummarize, QHello },
     include_sources     : { FALSE },
     include_evaluations : { FALSE },
     max_sources         : { None }]

\* The bodies the clients send, by the name of the workload.
Bodies(name) ==
    IF name = "every" THEN Requests \cup RejectedRequests
    ELSE ServiceRequests \cup RejectedRequests

\* The answers the generator may give.
Answers == { "answer" }

\* A request with nothing in it, before the first request arrives.
NoRequest ==
    [question |-> <<>>, include_sources |-> FALSE,
     include_evaluations |-> FALSE, max_sources |-> None]

\* No QueryAnalyzer method has been called.
NoAnalysis == [method |-> "none", result |-> None]

\* No component has been called on its own.
NoCall == [method |-> "none", result |-> None]

\* indexing_state when the module is loaded.
InitialIndexingState ==
    [in_progress      |-> FALSE,
     total_messages   |-> 0,
     indexed_messages |-> 0,
     last_error       |-> None]

----------------------------------------------------------------------------
(* State *)

VARIABLES
    index,                       \* the messages stored in the vector index
    top_k_initial,               \* QARetriever.top_k_initial
    workload,                    \* which bodies the clients of POST /ask send
    cache_initialized,           \* QARetriever._cache_initialized
    user_name_embeddings_cache,  \* QARetriever._user_name_embeddings_cache,
                                 \* <<name, embedding>> in insertion order
    all_user_names,              \* QARetriever._all_user_names
    pc,                          \* where answer_question stands
    served,                      \* requests answered so far
    request,                     \* the QuestionRequest being answered
    question_embedding,
    initial_contexts,
    user_counts,
    mentioned_users,
    is_user_specific_query,
    dominant_user,
    target_users,
    all_user_contexts,
    search_log,                  \* the vector_store.search calls of this request
    reranked_all,
    reranked_contexts,
    answer_text,
    evaluations,
    response,                    \* the AnswerResponse returned, or None
    analysis,                    \* the last call of a QueryAnalyzer method
    indexing_state,              \* data_ingestion.indexing_state
    ask_result,                  \* what POST /ask sent back last, or None
    failed_at,                   \* the stage that raised in the last request,
                                 \* or None
    indexing_result,             \* what run_full_indexing returned last, or None
    waiting,                     \* the requests that arrived while a handler
                                 \* ran: for each, whether it arrived before
                                 \* the running request had initialised the
                                 \* cache
    raced,                       \* that fact for the request in progress
    cache_log,                   \* what each request did at the cache stage
    call                         \* the last call of a component on its own

cache_vars == <<cache_initialized, user_name_embeddings_cache, all_user_names>>

config_vars == <<index, top_k_initial, workload>>

detect_vars == <<mentioned_users, is_user_specific_query>>

branch_vars == <<dominant_user, target_users, all_user_contexts>>

rerank_vars == <<reranked_all, reranked_contexts>>

\* What no stage of answer_question touches.
loop_vars == <<indexing_state, indexing_result, waiting, raced, call>>

vars ==
    <<index, top_k_initial, workload, cache_initialized, user_name_embeddings_cache,
      all_user_names, pc, served, request, question_embedding,
      initial_contexts, user_counts, mentioned_users, is_user_specific_query,
      dominant_user, target_users, all_user_contexts, search_log,
      reranked_all, reranked_contexts, answer_text, evaluations, response,
      analysis, indexing_state, indexing_result, ask_result, failed_at,
      waiting, raced,
      cache_log, call>>

\* The locals of answer_question before its first statement.
FreshLocals ==
    /\ question_embedding = None
    /\ initial_contexts = <<>>
    /\ user_counts = <<>>
    /\ mentioned_users = <<>>
    /\ is_user_specific_query = FALSE
    /\ dominant_user = None
    /\ target_users = <<>>
    /\ all_user_contexts = <<>>
    /\ search_log = <<>>
    /\ reranked_all = <<>>
    /\ reranked_contexts = <<>>
    /\ answer_text = None
    /\ evaluations = None

\* The retriever as __init__ leaves it, no request yet and no component
\* called on its own.
FreshProcess ==
    /\ cache_initialized = FALSE
    /\ user_name_embeddings_cache = <<>>
    /\ all_user_names = {}
    /\ pc = "idle"
    /\ served = 0
    /\ request = NoRequest
    /\ FreshLocals
    /\ response = None
    /\ indexing_result = None
    /\ ask_result = None
    /\ failed_at = None
    /\ waiting = <<>>
    /\ cache_log = <<>>
    /\ raced = FALSE

\* indexing_state once should_index has counted the vectors of an index
\* that holds some.
IndexCounted(idx) ==
    [InitialIndexingState EXCEPT
        !.indexed_messages = Cardinality(idx),
        !.total_messages   = Cardinality(idx)]

\* The process after start-up, over an index that holds some messages:
\* the start-up job has counted them, or indexing is disabled and
\* indexing_state is as the module defines it.
Init ==
    /\ index \in { ms \in SUBSET AllMessages : Cardinality(ms) <= MaxIndexSize }
    /\ top_k_initial \in TopKInitialChoices
    /\ workload = "every"
    /\ indexing_state \in
           { InitialIndexingState } \cup
           { IndexCounted(index) : ms \in { index } \ { {} } }
    /\ FreshProcess
    /\ analysis = NoAnalysis
    /\ call = NoCall


----------------------------------------------------------------------------
(* QARetriever.answer_question, one action per stage *)

\* The record of one vector_store.search call.
SearchCall(vector, top_k, filter_user_name) ==
    [vector |-> vector, top_k |-> top_k, filter_user_name |-> filter_user_name]

\* list(a_set): the elements in some order.
Orderings(S) ==
    { s \in [1..Cardinality(S) -> S] : \A i, j \in DOMAIN s : s[i] = s[j] => i = j }

\* cache[user_name] = emb on a dict kept in insertion order.
dict_set(cache, user_name, emb) ==
    IF \E i \in DOMAIN cache : cache[i][1] = user_name
    THEN [i \in DOMAIN cache |->
             IF cache[i][1] = user_name THEN <<user_name, emb>> ELSE cache[i]]
    ELSE Append(cache, <<user_name, emb>>)

RECURSIVE dict_update(_, _)
dict_update(cache, user_names_list) ==
    IF user_names_list = <<>> THEN cache
    ELSE dict_update(dict_set(cache, user_names_list[1],
                              NameEmbedding(user_names_list[1])),
                     Tail(user_names_list))

\* The event loop is free: no handler is running.  ask, answer_question
\* and run_full_indexing never yield before they return, so handlers run
\* one after the other.
LoopFree == pc \in { "idle", "done", "failed" }

\* The next handler starts: it serves a waiting request if there is one.
TakeRequest ==
    /\ LoopFree
    /\ served < MaxRequests
    /\ waiting' = IF waiting # <<>> THEN Tail(waiting) ELSE <<>>
    /\ raced' = IF waiting # <<>> THEN Head(waiting) ELSE FALSE

\* The locals of answer_question are those of a call that has not begun.
NewFrame ==
    /\ question_embedding' = None
    /\ initial_contexts' = <<>>
    /\ user_counts' = <<>>
    /\ mentioned_users' = <<>>
    /\ is_user_specific_query' = FALSE
    /\ dominant_user' = None
    /\ target_users' = <<>>
    /\ all_user_contexts' = <<>>
    /\ search_log' = <<>>
    /\ reranked_all' = <<>>
    /\ reranked_contexts' = <<>>
    /\ answer_text' = None
    /\ evaluations' = None
    /\ response' = None

\* What the client of POST /ask receives: the status and, for an error, the
\* detail; the body of a 200 is `response`.
HTTPResult(status_code, detail) == [status_code |-> status_code, detail |-> detail]

\* QuestionRequest.question: Field(min_length=5, max_length=500).
ValidBody(req) == Len(req.question) >= 5 /\ Len(req.question) <= 500

\* ask turns the request away without calling answer_question.
Reject(req, status_code, detail) ==
    /\ TakeRequest
    /\ request' = req
    /\ NewFrame
    /\ ask_result' = Some(HTTPResult(status_code, detail))
    /\ failed_at' = None
    /\ served' = served + 1
    /\ pc' = "idle"
    /\ UNCHANGED <<config_vars, cache_vars, analysis, indexing_state,
                   indexing_result, cache_log, call>>

\* The body fails the validation of QuestionRequest: the framework answers
\* 422 and ask is not called.
RejectInvalidBody ==
    /\ LoopFree
    /\ \E req \in Bodies(workload) :
          /\ ~ValidBody(req)
          /\ Reject(req, 422, "validation error")

\* not request.question or len(request.question.strip()) == 0
EmptyQuestion(req) == req.question = <<>> \/ Strip(req.question) = <<>>

\* ask, the validation of the question.
AskEmptyQuestion ==
    /\ LoopFree
    /\ \E req \in Bodies(workload) :
          /\ ValidBody(req)
          /\ EmptyQuestion(req)
          /\ Reject(req, 400, "Question cannot be empty")

\* not state["in_progress"] and state["indexed_messages"] == 0
NotReady(state) == ~state.in_progress /\ state.indexed_messages = 0

\* ask, the readiness test on a copy of indexing_state.
AskNotReady ==
    /\ LoopFree
    /\ NotReady(indexing_state)
    /\ \E req \in Bodies(workload) :
          /\ ValidBody(req)
          /\ ~EmptyQuestion(req)
          /\ Reject(req, 503, "Indexing in progress. Please retry in a few seconds.")

\* ask hands the request to answer_question.
ReceiveRequest ==
    /\ LoopFree
    /\ ~NotReady(indexing_state)
    /\ \E req \in Bodies(workload) :
          /\ ValidBody(req)
          /\ ~EmptyQuestion(req)
          /\ TakeRequest
          /\ request' = req
          /\ NewFrame
          /\ ask_result' = None
          /\ failed_at' = None
          /\ pc' = "embed"
          /\ UNCHANGED <<config_vars, cache_vars, served, analysis,
                         indexing_state, indexing_result, cache_log, call>>

\* The stages of answer_question before the test of _cache_initialized.
BeforeCacheCheck == {"embed", "search", "cache"}

\* Another POST /ask arrives while answer_question runs: it waits for the
\* event loop.
RequestArrives ==
    /\ ~LoopFree
    /\ served + 1 + Len(waiting) < MaxRequests
    /\ waiting' = Append(waiting, ~cache_initialized /\ pc \in BeforeCacheCheck)
    /\ UNCHANGED <<config_vars, cache_vars, pc, served, request,
                   question_embedding, initial_contexts, user_counts,
                   detect_vars, branch_vars, search_log, rerank_vars,
                   answer_text, evaluations, response, analysis,
                   indexing_state, indexing_result, ask_result, failed_at,
                   raced, cache_log, call>>

\* The exception swallowed: ask answers 200.
Abort_Swallowed ==
    /\ NewFrame
    /\ failed_at' = Some(pc)
    /\ pc' = "failed"
    /\ ask_result' = Some(HTTPResult(200, ""))
    /\ served' = served + 1

\* An exception leaves answer_question (logged and raised again), whose
\* locals go with it, and ask turns it into a 500 with a fixed detail.
Abort ==
    /\ NewFrame
    /\ failed_at' = Some(pc)
    /\ pc' = "failed"
    /\ ask_result' = Some(HTTPResult(500, "Internal server error"))
    /\ served' = served + 1

\* Step 1: embed the question.
EmbedQuestion ==
    /\ pc = "embed"
    /\ \E e \in QuestionEmbeddings : question_embedding' = Some(e)
    /\ pc' = "search"
    /\ UNCHANGED <<config_vars, loop_vars, ask_result, failed_at, cache_log, cache_vars, served, request, initial_contexts,
                   user_counts, detect_vars, branch_vars, search_log,
                   rerank_vars, answer_text, evaluations, response, analysis>>

\* Step 2: the general retrieval and the per-user tally.
InitialSearch ==
    /\ pc = "search"
    /\ initial_contexts' = Search(index, question_embedding, top_k_initial, None)
    /\ user_counts' = count_users(initial_contexts', <<>>)
    /\ search_log' = Append(search_log,
                            SearchCall(question_embedding, top_k_initial, None))
    /\ pc' = "cache"
    /\ UNCHANGED <<config_vars, loop_vars, ask_result, failed_at, cache_log, cache_vars, served, request, question_embedding,
                   detect_vars, branch_vars, rerank_vars, answer_text,
                   evaluations, response, analysis>>

\* The cache filled but never marked initialised.
InitializeUserNameCache_NeverMarks ==
    /\ pc = "cache"
    /\ ~cache_initialized
    /\ LET all_contexts == Search(index, dummy_vector, ProbeTopK, None)
           names        == { all_contexts[i].message.user_name :
                                 i \in DOMAIN all_contexts }
       IN  /\ search_log' = Append(search_log,
                                   SearchCall(dummy_vector, ProbeTopK, None))
           /\ IF names = {}
              THEN UNCHANGED <<all_user_names, user_name_embeddings_cache>>
              ELSE /\ all_user_names' = names
                   /\ \E user_names_list \in Orderings(names) :
                          user_name_embeddings_cache' =
                              dict_update(user_name_embeddings_cache,
                                          user_names_list)
    /\ cache_initialized' = cache_initialized
    /\ cache_log' = Append(cache_log, "built")
    /\ pc' = "detect"
    /\ UNCHANGED <<config_vars, loop_vars, ask_result, failed_at, served, request, question_embedding,
                   initial_contexts, user_counts, detect_vars, branch_vars,
                   rerank_vars, answer_text, evaluations, response, analysis>>

\* An empty probe leaves the cache unmarked, to be sampled again.
InitializeUserNameCache_RetriesEmpty ==
    /\ pc = "cache"
    /\ ~cache_initialized
    /\ LET all_contexts == Search(index, dummy_vector, ProbeTopK, None)
           names        == { all_contexts[i].message.user_name :
                                 i \in DOMAIN all_contexts }
       IN  /\ search_log' = Append(search_log,
                                   SearchCall(dummy_vector, ProbeTopK, None))
           /\ IF names = {}
              THEN UNCHANGED <<all_user_names, user_name_embeddings_cache>>
              ELSE /\ all_user_names' = names
                   /\ \E user_names_list \in Orderings(names) :
                          user_name_embeddings_cache' =
                              dict_update(user_name_embeddings_cache,
                                          user_names_list)
    /\ cache_initialized' = (index # {})
    /\ cache_log' = Append(cache_log, "built")
    /\ pc' = "detect"
    /\ UNCHANGED <<config_vars, loop_vars, ask_result, failed_at, served, request, question_embedding,
                   initial_contexts, user_counts, detect_vars, branch_vars,
                   rerank_vars, answer_text, evaluations, response, analysis>>

\* _initialize_user_name_cache on the first request: sample the user names
\* with the probe vector, embed each name once, store the pairs.
InitializeUserNameCache ==
    /\ pc = "cache"
    /\ ~cache_initialized
    /\ LET all_contexts == Search(index, dummy_vector, ProbeTopK, None)
           names        == { all_contexts[i].message.user_name :
                                 i \in DOMAIN all_contexts }
       IN  /\ search_log' = Append(search_log,
                                   SearchCall(dummy_vector, ProbeTopK, None))
           /\ IF names = {}
              THEN UNCHANGED <<all_user_names, user_name_embeddings_cache>>
              ELSE /\ all_user_names' = names
                   /\ \E user_names_list \in Orderings(names) :
                          user_name_embeddings_cache' =
                              dict_update(user_name_embeddings_cache,
                                          user_names_list)
    /\ cache_initialized' = TRUE
    /\ cache_log' = Append(cache_log, "built")
    /\ pc' = "detect"
    /\ UNCHANGED <<config_vars, loop_vars, ask_result, failed_at, served, request, question_embedding,
                   initial_contexts, user_counts, detect_vars, branch_vars,
                   rerank_vars, answer_text, evaluations, response, analysis>>

\* The names sampled again on every request.
CacheAlreadyInitialized_Refreshes ==
    /\ pc = "cache"
    /\ cache_initialized
    /\ LET all_contexts == Search(index, dummy_vector, ProbeTopK, None)
           names        == { all_contexts[i].message.user_name :
                                 i \in DOMAIN all_contexts }
       IN  /\ all_user_names' = names
           /\ \E user_names_list \in Orderings(names) :
                  user_name_embeddings_cache' =
                      dict_update(user_name_embeddings_cache, user_names_list)
    /\ pc' = "detect"
    /\ cache_log' = Append(cache_log, "skipped")
    /\ UNCHANGED <<config_vars, loop_vars, ask_result, failed_at, cache_initialized, served, request, question_embedding,
                   initial_contexts, user_counts, detect_vars, branch_vars,
                   search_log, rerank_vars, answer_text, evaluations, response,
                   analysis>>

\* The cache is already initialised: nothing to do.
CacheAlreadyInitialized ==
    /\ pc = "cache"
    /\ cache_initialized
    /\ pc' = "detect"
    /\ cache_log' = Append(cache_log, "skipped")
    /\ UNCHANGED <<config_vars, loop_vars, ask_result, failed_at, cache_vars, served, request, question_embedding,
                   initial_contexts, user_counts, detect_vars, branch_vars,
                   search_log, rerank_vars, answer_text, evaluations, response,
                   analysis>>

\* Step 3: mention detection and the keyword test.
DetectMentions ==
    /\ pc = "detect"
    /\ mentioned_users' = detect_mentioned_users(user_name_embeddings_cache,
                                                 question_embedding[1])
    /\ is_user_specific_query' = is_user_specific(request.question)
    /\ pc' = "branch"
    /\ UNCHANGED <<config_vars, loop_vars, ask_result, failed_at, cache_log, cache_vars, served, request, question_embedding,
                   initial_contexts, user_counts, branch_vars, search_log,
                   rerank_vars, answer_text, evaluations, response, analysis>>

\* The mention branch taken whatever the keyword test says.
MentionBranch_IgnoresKeyword == mentioned_users # <<>>

\* The guard of the mention branch.
MentionBranch == mentioned_users # <<>> /\ is_user_specific_query

\* The guard of the dominant-user fallback.
DominantBranch ==
    /\ ~MentionBranch
    /\ user_counts # <<>>
    /\ is_user_specific_query
    /\ dominates(user_counts, initial_contexts)

\* One mentioned user: all of that user's messages replace the candidates.
SingleUserRetrieval ==
    /\ pc = "branch"
    /\ MentionBranch
    /\ Len(mentioned_users) = 1
    /\ dominant_user' = Some(mentioned_users[1])
    /\ initial_contexts' = Search(index, question_embedding, ExhaustiveTopK,
                                  Some(mentioned_users[1]))
    /\ search_log' = Append(search_log,
                            SearchCall(question_embedding, ExhaustiveTopK,
                                       Some(mentioned_users[1])))
    /\ pc' = "rerank"
    /\ UNCHANGED <<config_vars, loop_vars, ask_result, failed_at, cache_log, cache_vars, served, request, question_embedding,
                   user_counts, detect_vars, target_users, all_user_contexts,
                   rerank_vars, answer_text, evaluations, response, analysis>>

\* Several mentioned users: they become the targets of the retrieval loop.
MultiUserStart ==
    /\ pc = "branch"
    /\ MentionBranch
    /\ Len(mentioned_users) # 1
    /\ target_users' = mentioned_users
    /\ all_user_contexts' = <<>>
    /\ pc' = "multi"
    /\ UNCHANGED <<config_vars, loop_vars, ask_result, failed_at, cache_log, cache_vars, served, request, question_embedding,
                   initial_contexts, user_counts, detect_vars, dominant_user,
                   search_log, rerank_vars, answer_text, evaluations, response,
                   analysis>>

\* The searches of this request that name a user.
FilteredCalls == SelectSeq(search_log, LAMBDA c : c.filter_user_name # None)

\* One pass of the loop over target_users: the next target's messages are
\* appended; after the last target the collected contexts replace the
\* candidates.
MultiUserSearch ==
    /\ pc = "multi"
    /\ LET i             == Len(FilteredCalls) + 1
           user_name     == target_users[i]
           user_contexts == Search(index, question_embedding, ExhaustiveTopK,
                                   Some(user_name))
       IN  /\ all_user_contexts' = all_user_contexts \o user_contexts
           /\ search_log' = Append(search_log,
                                   SearchCall(question_embedding,
                                              ExhaustiveTopK, Some(user_name)))
           /\ IF i = Len(target_users)
              THEN /\ initial_contexts' = all_user_contexts'
                   /\ pc' = "rerank"
              ELSE UNCHANGED <<initial_contexts, pc>>
    /\ UNCHANGED <<config_vars, loop_vars, ask_result, failed_at, cache_log, cache_vars, served, request, question_embedding,
                   user_counts, detect_vars, dominant_user, target_users,
                   rerank_vars, answer_text, evaluations, response, analysis>>

\* No mention, an intent keyword, and one user with more than half of the
\* candidates: that user's messages replace the candidates.
DominantUserRetrieval ==
    /\ pc = "branch"
    /\ DominantBranch
    /\ dominant_user' = Some(top_user(user_counts))
    /\ initial_contexts' = Search(index, question_embedding, ExhaustiveTopK,
                                  Some(top_user(user_counts)))
    /\ search_log' = Append(search_log,
                            SearchCall(question_embedding, ExhaustiveTopK,
                                       Some(top_user(user_counts))))
    /\ pc' = "rerank"
    /\ UNCHANGED <<config_vars, loop_vars, ask_result, failed_at, cache_log, cache_vars, served, request, question_embedding,
                   user_counts, detect_vars, target_users, all_user_contexts,
                   rerank_vars, answer_text, evaluations, response, analysis>>

\* Neither branch: the candidates of step 2 go on as they are.
GeneralRetrieval ==
    /\ pc = "branch"
    /\ ~MentionBranch
    /\ ~DominantBranch
    /\ pc' = "rerank"
    /\ UNCHANGED <<config_vars, loop_vars, ask_result, failed_at, cache_log, cache_vars, served, request, question_embedding,
                   initial_contexts, user_counts, detect_vars, branch_vars,
                   search_log, rerank_vars, answer_text, evaluations, response,
                   analysis>>

\* request.max_sources if it is given, else 30.
top_k_after_rerank(req) ==
    IF req.max_sources # None THEN req.max_sources[1] ELSE DefaultMaxSources

\* The slice that keeps every candidate.
truncate_KeepsAll(contexts, limit) == contexts

\* reranked_all[:top_k_after_rerank]
truncate(contexts, limit) == SubSeq(contexts, 1, Min(limit, Len(contexts)))

\* Step 5 to 7: rerank every candidate (no limit), then keep the first
\* top_k_after_rerank.  rerank writes score and rank into the context objects,
\* which initial_contexts still holds in their old order.
Rerank ==
    /\ pc = "rerank"
    /\ \E scores \in [DOMAIN initial_contexts -> RawScores] :
          /\ reranked_all' = rerank(initial_contexts, scores, None)
          /\ reranked_contexts' = truncate(reranked_all', top_k_after_rerank(request))
          /\ initial_contexts' =
                 [i \in DOMAIN initial_contexts |->
                     [initial_contexts[i] EXCEPT
                         !.reranker_score = Some(Sigmoid(scores[i])),
                         !.rank = CHOOSE r \in DOMAIN reranked_all' :
                                     reranked_all'[r].message = initial_contexts[i].message]]
    /\ pc' = "generate"
    /\ UNCHANGED <<config_vars, loop_vars, ask_result, failed_at, cache_log, cache_vars, served, request, question_embedding,
                   user_counts, detect_vars, branch_vars, search_log,
                   answer_text, evaluations, response, analysis>>

\* Step 8: the generator answers from the retained contexts.
GenerateAnswer ==
    /\ pc = "generate"
    /\ \E a \in Answers : answer_text' = Some(a)
    /\ pc' = IF request.include_evaluations THEN "evaluate" ELSE "respond"
    /\ UNCHANGED <<config_vars, loop_vars, ask_result, failed_at, cache_log, cache_vars, served, request, question_embedding,
                   initial_contexts, user_counts, detect_vars, branch_vars,
                   search_log, rerank_vars, evaluations, response, analysis>>

\* Step 9: the evaluation engine returns its results.
EvaluateAnswer ==
    /\ pc = "evaluate"
    /\ evaluations' = Some("results")
    /\ pc' = "respond"
    /\ UNCHANGED <<config_vars, loop_vars, ask_result, failed_at, cache_log, cache_vars, served, request, question_embedding,
                   initial_contexts, user_counts, detect_vars, branch_vars,
                   search_log, rerank_vars, answer_text, response, analysis>>

\* The failure of the engine taken for a failure of the request.
EvaluationFails_Aborts ==
    /\ pc = "evaluate"
    /\ NewFrame
    /\ failed_at' = Some("evaluate")
    /\ pc' = "failed"
    /\ ask_result' = Some(HTTPResult(500, "Internal server error"))
    /\ served' = served + 1
    /\ UNCHANGED <<config_vars, loop_vars, cache_log, cache_vars, request,
                   analysis>>

\* Step 9, the engine raises: logged, evaluations stay None.
EvaluationFails ==
    /\ pc = "evaluate"
    /\ evaluations' = None
    /\ failed_at' = Some("evaluate")
    /\ pc' = "respond"
    /\ UNCHANGED <<config_vars, loop_vars, ask_result, cache_log, cache_vars,
                   served, request, question_embedding, initial_contexts,
                   user_counts, detect_vars, branch_vars, search_log,
                   rerank_vars, answer_text, response, analysis>>

\* MessageSource(...) for ctx in reranked_contexts
message_sources(contexts) ==
    [i \in DOMAIN contexts |->
        [id               |-> contexts[i].message.id,
         user_name        |-> contexts[i].message.user_name,
         similarity_score |-> contexts[i].similarity_score,
         reranker_score   |-> contexts[i].reranker_score]]

\* AnswerResponse(answer, sources, evaluations, latency_ms, model_used,
\* token_usage): the fields the orchestrator passes, and no other.
answer_response(req, answer, contexts, evals) ==
    [answer      |-> answer,
     sources     |-> IF req.include_sources
                     THEN Some(message_sources(contexts)) ELSE None,
     evaluations |-> evals,
     latency_ms  |-> "elapsed",
     model_used  |-> "llm_service.model",
     token_usage |-> "token_usage_info"]

\* Build the response and return it.
BuildResponse ==
    /\ pc = "respond"
    /\ response' = Some(answer_response(request, answer_text[1],
                                        reranked_contexts, evaluations))
    /\ ask_result' = Some(HTTPResult(200, ""))
    /\ served' = served + 1
    /\ pc' = "done"
    /\ UNCHANGED <<config_vars, loop_vars, failed_at, cache_log, cache_vars, request, question_embedding,
                   initial_contexts, user_counts, detect_vars, branch_vars,
                   search_log, rerank_vars, answer_text, evaluations, analysis>>

----------------------------------------------------------------------------
(* answer_question, a stage raises *)

\* Step 1, embed_single raises.
EmbedFails ==
    /\ pc = "embed"
    /\ Abort
    /\ UNCHANGED <<config_vars, loop_vars, cache_log, cache_vars, request,
                   analysis>>

\* Step 2, the general search raises.
InitialSearchFails ==
    /\ pc = "search"
    /\ Abort
    /\ UNCHANGED <<config_vars, loop_vars, cache_log, cache_vars, request,
                   analysis>>

\* The probe search raises and the cache is marked initialised all the same.
ProbeFails_MarksInitialized ==
    /\ pc = "cache"
    /\ ~cache_initialized
    /\ Abort
    /\ cache_initialized' = TRUE
    /\ cache_log' = Append(cache_log, "failed")
    /\ UNCHANGED <<config_vars, loop_vars, user_name_embeddings_cache,
                   all_user_names, request, analysis>>

\* _initialize_user_name_cache, the probe search raises: the cache is as it
\* was.
ProbeFails ==
    /\ pc = "cache"
    /\ ~cache_initialized
    /\ Abort
    /\ cache_log' = Append(cache_log, "failed")
    /\ UNCHANGED <<config_vars, loop_vars, cache_vars, request,
                   analysis>>

\* embed_texts raises and the cache is marked initialised all the same.
NameEmbeddingFails_MarksInitialized ==
    /\ pc = "cache"
    /\ ~cache_initialized
    /\ LET all_contexts == Search(index, dummy_vector, ProbeTopK, None)
           names        == { all_contexts[i].message.user_name :
                                 i \in DOMAIN all_contexts }
       IN  /\ names # {}
           /\ all_user_names' = names
    /\ Abort
    /\ cache_initialized' = TRUE
    /\ cache_log' = Append(cache_log, "failed")
    /\ UNCHANGED <<config_vars, loop_vars, user_name_embeddings_cache,
                   request, analysis>>

\* _initialize_user_name_cache, embed_texts raises: the names are already
\* stored, no embedding is, and the cache is not marked initialised.
NameEmbeddingFails ==
    /\ pc = "cache"
    /\ ~cache_initialized
    /\ LET all_contexts == Search(index, dummy_vector, ProbeTopK, None)
           names        == { all_contexts[i].message.user_name :
                                 i \in DOMAIN all_contexts }
       IN  /\ names # {}
           /\ all_user_names' = names
    /\ Abort
    /\ cache_log' = Append(cache_log, "failed")
    /\ UNCHANGED <<config_vars, loop_vars, cache_initialized,
                   user_name_embeddings_cache, request, analysis>>

\* Step 4, a search filtered by user name raises.
UserSearchFails ==
    /\ \/ pc = "branch" /\ (MentionBranch \/ DominantBranch)
       \/ pc = "multi"
    /\ Abort
    /\ UNCHANGED <<config_vars, loop_vars, cache_log, cache_vars, request,
                   analysis>>

\* Step 5, the cross-encoder raises; it is not called on an empty list.
RerankFails ==
    /\ pc = "rerank"
    /\ initial_contexts # <<>>
    /\ Abort
    /\ UNCHANGED <<config_vars, loop_vars, cache_log, cache_vars, request,
                   analysis>>

\* Step 8, the generator raises.
GenerateFails ==
    /\ pc = "generate"
    /\ Abort
    /\ UNCHANGED <<config_vars, loop_vars, cache_log, cache_vars, request,
                   analysis>>

----------------------------------------------------------------------------
(* data_ingestion: run_full_indexing and should_index *)

\* Messages in one batch of index_messages (settings.message_batch_size as
\* deployed).
MessageBatchSize == 2

\* What the messages API holds, in the order it serves it.
ApiMessages == ById(AllMessages)

\* fetch_all_messages: it raises, or it returns the messages it could
\* fetch, all of them or the first ones only.
FetchOutcomes ==
    { [raised |-> TRUE, messages |-> <<>>] } \cup
    { [raised |-> FALSE, messages |-> SubSeq(ApiMessages, 1, n)] :
          n \in 0..Len(ApiMessages) }

\* Number of batches index_messages cuts the messages into.
NumBatches(messages) ==
    (Len(messages) + MessageBatchSize - 1) \div MessageBatchSize

\* index_messages where the first `ok` batches are embedded and upserted and
\* the next one raises (none raises when ok is the number of batches): the
\* messages now in the index, indexing_state, and the count returned.
index_messages(state, idx, messages, ok) ==
    IF messages = <<>>
    THEN [raised |-> FALSE, count |-> 0, index |-> idx, state |-> state]
    ELSE LET total_indexed == Min(ok * MessageBatchSize, Len(messages))
             upserted      == { messages[i] : i \in 1..total_indexed }
             progress      == IF ok = 0 THEN state
                              ELSE [state EXCEPT
                                       !.indexed_messages = total_indexed]
         IN  IF ok >= NumBatches(messages)
             THEN [raised |-> FALSE, count |-> total_indexed,
                   index |-> idx \cup upserted, state |-> progress]
             ELSE [raised |-> TRUE, count |-> 0,
                   index |-> idx \cup upserted,
                   state |-> [progress EXCEPT
                                 !.last_error = Some("index error")]]

\* run_full_indexing from its first statement to its finally clause, for
\* one outcome of the fetch and of the two attempts at indexing.
run_full_indexing(state, idx, fetch, ok1, ok2) ==
    LET started == [state EXCEPT !.in_progress = TRUE, !.last_error = None]
        fetched == [started EXCEPT
                       !.total_messages   = Len(fetch.messages),
                       !.indexed_messages = Len(fetch.messages)]
        first   == index_messages(fetched, idx, fetch.messages, ok1)
        caught  == [first.state EXCEPT !.last_error = Some("index error")]
        second  == index_messages(caught, first.index, fetch.messages, ok2)
        outcome ==
            IF fetch.raised
            THEN [result |-> FALSE, index |-> idx,
                  state  |-> [started EXCEPT
                                 !.last_error = Some("fetch error")]]
            ELSE IF fetch.messages = <<>>
            THEN [result |-> FALSE, index |-> idx,
                  state  |-> [fetched EXCEPT !.last_error =
                                 Some("No messages fetched from API")]]
            ELSE IF ~first.raised
            THEN [result |-> TRUE, index |-> first.index,
                  state  |-> [first.state EXCEPT
                                 !.indexed_messages = first.count,
                                 !.total_messages   = first.count]]
            ELSE IF ~second.raised
            THEN [result |-> TRUE, index |-> second.index,
                  state  |-> [second.state EXCEPT
                                 !.indexed_messages = second.count]]
            ELSE [result |-> FALSE, index |-> second.index,
                  state  |-> second.state]
    IN  [outcome EXCEPT !.state.in_progress = FALSE]

\* POST /reindex or the start-up job runs run_full_indexing; it holds the
\* event loop until it returns.
RunFullIndexing ==
    /\ LoopFree
    /\ \E fetch \in FetchOutcomes :
       \E ok1, ok2 \in 0..NumBatches(fetch.messages) :
          LET outcome == run_full_indexing(indexing_state, index, fetch,
                                           ok1, ok2)
          IN  /\ Cardinality(outcome.index) <= MaxIndexSize
              /\ index' = outcome.index
              /\ indexing_state' = outcome.state
              /\ indexing_result' = Some(outcome.result)
    /\ UNCHANGED <<top_k_initial, workload, cache_vars, pc, served, request,
                   question_embedding, initial_contexts, user_counts,
                   detect_vars, branch_vars, search_log, rerank_vars,
                   answer_text, evaluations, response, analysis, ask_result,
                   failed_at, waiting, raced, cache_log, call>>

\* should_index finds vectors in the index: it records their number in
\* indexing_state and no indexing runs.
ShouldIndexSkips ==
    /\ LoopFree
    /\ index # {}
    /\ indexing_state' = [indexing_state EXCEPT
                             !.indexed_messages = Cardinality(index),
                             !.total_messages   = Cardinality(index),
                             !.in_progress      = FALSE]
    /\ UNCHANGED <<config_vars, cache_vars, pc, served, request,
                   question_embedding, initial_contexts, user_counts,
                   detect_vars, branch_vars, search_log, rerank_vars,
                   answer_text, evaluations, response, analysis,
                   indexing_result, ask_result, failed_at, waiting, raced, cache_log,
                   call>>

----------------------------------------------------------------------------
(* The reranker and the truncation called on their own *)

\* Largest number of candidates handed to the reranker on its own.
MaxCandidates == 50

\* n candidates as a search returns them.
Candidates(n) ==
    [i \in 1..n |->
        [message          |-> [id |-> i, user_name |-> "Amira", emb |-> 0],
         similarity_score |-> 100,
         reranker_score   |-> None,
         rank             |-> i]]

\* The raw scores of the table in rising order.
RisingRawScores == [i \in DOMAIN SigmoidTable |-> SigmoidTable[i][1]]

\* The raw scores the cross-encoder gives the candidates: all equal, rising
\* along the list, or falling along it (each with repeats once the list is
\* longer than the table).
ScorePatterns == { "equal", "rising", "falling" }

PatternScores(pattern, n) ==
    [i \in 1..n |->
        IF pattern = "equal" THEN 0
        ELSE IF pattern = "rising"
        THEN RisingRawScores[((i - 1) % Len(RisingRawScores)) + 1]
        ELSE RisingRawScores[Len(RisingRawScores) - ((i - 1) % Len(RisingRawScores))]]

\* max_sources of the requests whose candidates are truncated.
TruncationLimits == { None, Some(1), Some(29), Some(30), Some(31), Some(500) }

\* Rerank-and-truncate calls before they return: the steps 5 to 7 of
\* answer_question on a list of candidates.
RerankTruncateCalls ==
    [method         : { "rerank_truncate" },
     num_candidates : 0..MaxCandidates,
     pattern        : ScorePatterns,
     max_sources    : TruncationLimits,
     result         : { None }]

\* Normalisations of two raw scores before they return.
NormalizeCalls ==
    [method : { "normalize" },
     raw_a  : RawScoreSamples,
     raw_b  : RawScoreSamples,
     result : { None }]

\* The reranked list of a rerank-and-truncate call.
RerankedOf(c) ==
    rerank(Candidates(c.num_candidates),
           PatternScores(c.pattern, c.num_candidates), None)

\* Steps 5 to 7 return the retained candidates.
RerankAndTruncate ==
    /\ call.method = "rerank_truncate"
    /\ call.result = None
    /\ call' = [call EXCEPT !.result =
                   Some(truncate(RerankedOf(call),
                                 top_k_after_rerank(call)))]
    /\ UNCHANGED <<config_vars, cache_vars, pc, served, request,
                   question_embedding, initial_contexts, user_counts,
                   detect_vars, branch_vars, search_log, rerank_vars,
                   answer_text, evaluations, response, analysis,
                   indexing_state, indexing_result, ask_result, failed_at,
                   waiting, raced, cache_log>>

\* The two raw scores are normalised.
Normalize ==
    /\ call.method = "normalize"
    /\ call.result = None
    /\ call' = [call EXCEPT !.result =
                   Some(<<Sigmoid(call.raw_a), Sigmoid(call.raw_b)>>)]
    /\ UNCHANGED <<config_vars, cache_vars, pc, served, request,
                   question_embedding, initial_contexts, user_counts,
                   detect_vars, branch_vars, search_log, rerank_vars,
                   answer_text, evaluations, response, analysis,
                   indexing_state, indexing_result, ask_result, failed_at,
                   waiting, raced, cache_log>>

\* The reranker alone: one call, no request in progress.
InitReranker ==
    /\ index = {}
    /\ top_k_initial = TopKInitialDefault
    /\ workload = "every"
    /\ indexing_state = InitialIndexingState
    /\ FreshProcess
    /\ analysis = NoAnalysis
    /\ call \in RerankTruncateCalls \cup NormalizeCalls

NextReranker ==
    \/ RerankAndTruncate
    \/ Normalize

SpecReranker == InitReranker /\ [][NextReranker]_vars

----------------------------------------------------------------------------
(* The evaluation engine: the parse of a judge reply *)

\* A judge reply is a sequence of symbols: a character, or one of the two
\* labels the patterns look for, each standing for its letters and colon in
\* any case.  Scores are thousandths.
Digits == { "0", "1", "2", "3", "4", "5", "6", "7", "8", "9" }

DigitValue(d) ==
    CASE d = "0" -> 0 [] d = "1" -> 1 [] d = "2" -> 2 [] d = "3" -> 3
      [] d = "4" -> 4 [] d = "5" -> 5 [] d = "6" -> 6 [] d = "7" -> 7
      [] d = "8" -> 8 [] d = "9" -> 9

\* [0-9.]
IsScoreChar(c) == c \in Digits \cup { "." }

\* [,\s]
IsSeparator(c) == c = "," \/ c \in Whitespace

\* \w on the last and on the first character of a symbol.
EndsWithWordChar(c) == c \in Digits \cup { "x" }

StartsWithWordChar(c) == c \in Digits \cup { "x", "SCORE:", "REASONING:" }

\* \b between text[k - 1] and text[k].
WordBoundary(text, k) ==
    LET left  == k > 1 /\ EndsWithWordChar(text[k - 1])
        right == k <= Len(text) /\ StartsWithWordChar(text[k])
    IN  left # right

\* The end of the longest run of [0-9.] that starts at p (p - 1: no run).
ScoreRunEnd(text, p) ==
    CHOOSE q \in (p - 1)..Len(text) :
        /\ \A k \in p..q : IsScoreChar(text[k])
        /\ q = Len(text) \/ ~IsScoreChar(text[q + 1])

\* The first position from p on that holds no whitespace.
SkipSpaces(text, p) ==
    CHOOSE q \in p..(Len(text) + 1) :
        /\ \A k \in p..(q - 1) : text[k] \in Whitespace
        /\ q = Len(text) + 1 \/ text[q] \notin Whitespace

\* The first position from p on that holds no separator.
SkipSeparators(text, p) ==
    CHOOSE q \in p..(Len(text) + 1) :
        /\ \A k \in p..(q - 1) : IsSeparator(text[k])
        /\ q = Len(text) + 1 \/ ~IsSeparator(text[q])

\* A match: the bounds of group 1 and the position after the match.
Match(first, last, end) == [first |-> first, last |-> last, end |-> end]

\* re.search(r'SCORE:\s*([0-9.]+)', response, re.IGNORECASE)
SearchLabelledScore(text) ==
    LET starts == { i \in DOMAIN text :
                      /\ text[i] = "SCORE:"
                      /\ SkipSpaces(text, i + 1) <= Len(text)
                      /\ IsScoreChar(text[SkipSpaces(text, i + 1)]) }
    IN  IF starts = {} THEN None
        ELSE LET i == CHOOSE s \in starts : \A t \in starts : s <= t
                 g == SkipSpaces(text, i + 1)
             IN  Some(Match(g, ScoreRunEnd(text, g), ScoreRunEnd(text, g) + 1))

\* re.search(r'^([0-9.]+)[,\s]+(?:REASONING:)?', response, re.IGNORECASE)
SearchLeadingScore(text) ==
    IF text = <<>> \/ ~IsScoreChar(text[1]) THEN None
    ELSE LET e == ScoreRunEnd(text, 1)
         IN  IF e = Len(text) \/ ~IsSeparator(text[e + 1]) THEN None
             ELSE LET s == SkipSeparators(text, e + 1)
                  IN  Some(Match(1, e,
                                 IF s <= Len(text) /\ text[s] = "REASONING:"
                                 THEN s + 1 ELSE s))

\* re.search(r'\b([0-9.]+)\b', response): the leftmost start, and from it
\* the longest run that ends on a word boundary.
SearchAnyNumber(text) ==
    LET Ends(p) == { q \in p..Len(text) :
                       /\ \A k \in p..q : IsScoreChar(text[k])
                       /\ WordBoundary(text, q + 1) }
        starts  == { p \in DOMAIN text :
                       WordBoundary(text, p) /\ Ends(p) # {} }
    IN  IF starts = {} THEN None
        ELSE LET p == CHOOSE s \in starts : \A t \in starts : s <= t
                 q == CHOOSE e \in Ends(p) : \A f \in Ends(p) : e >= f
             IN  Some(Match(p, q, q + 1))

\* The value of a sequence of digits.
RECURSIVE IntValue(_)
IntValue(digits) ==
    IF digits = <<>> THEN 0
    ELSE 10 * IntValue(SubSeq(digits, 1, Len(digits) - 1))
             + DigitValue(digits[Len(digits)])

\* float(text) for a run of [0-9.]: ValueError unless the run has a digit
\* and at most one point; otherwise the value in thousandths (digits after
\* the third decimal are dropped).
Float(text) ==
    LET points == { k \in DOMAIN text : text[k] = "." }
    IN  IF Cardinality(points) > 1 \/ Cardinality(points) = Len(text)
        THEN [raised |-> TRUE, value |-> 0]
        ELSE LET dot      == IF points = {} THEN Len(text) + 1
                             ELSE CHOOSE k \in points : TRUE
                 whole    == SubSeq(text, 1, dot - 1)
                 decimals == SubSeq(text, dot + 1, Len(text))
                 Decimal(k) == IF k <= Len(decimals)
                               THEN DigitValue(decimals[k]) ELSE 0
             IN  [raised |-> FALSE,
                  value  |-> 1000 * IntValue(whole) + 100 * Decimal(1)
                                 + 10 * Decimal(2) + Decimal(3)]

\* re.search(r'REASONING:\s*(.+?)(?:\n|$)', ...), group 1 stripped: the
\* text from the first label that something follows, to the end of the
\* line.
SearchReasoning(text) ==
    LET starts == { i \in DOMAIN text : text[i] = "REASONING:" /\ i < Len(text) }
    IN  IF starts = {} THEN None
        ELSE LET i       == CHOOSE s \in starts : \A t \in starts : s <= t
                 g       == IF SkipSpaces(text, i + 1) <= Len(text)
                            THEN SkipSpaces(text, i + 1) ELSE Len(text)
                 breaks  == { k \in (g + 1)..Len(text) : text[k] = "\n" }
                 last    == IF breaks = {} THEN Len(text)
                            ELSE (CHOOSE b \in breaks : \A c \in breaks : b <= c) - 1
             IN  Some(Strip(SubSeq(text, g, last)))

\* re.sub(r'^[,:\s]+', '', reasoning)
RECURSIVE StripLeadingSeparators(_)
StripLeadingSeparators(text) ==
    IF text # <<>> /\ (IsSeparator(text[1]) \/ text[1] = ":")
    THEN StripLeadingSeparators(Tail(text))
    ELSE text

\* The reasoning of a reply whose float() calls returned: group 1 of the
\* REASONING pattern, else the text after the score match, else the reply.
Reasoning(text, score_match, reasoning_match) ==
    IF reasoning_match # None THEN reasoning_match[1]
    ELSE IF score_match # None
    THEN StripLeadingSeparators(Strip(SubSeq(text, score_match[1].end, Len(text))))
    ELSE text

\* min(1.0, max(0.0, score))
ClampScore(score) == IF score > 1000 THEN 1000 ELSE IF score < 0 THEN 0 ELSE score

\* The result of the except branch: return 0.5, f"Parse error: {e}".
ParseError == [raised |-> FALSE, score |-> 500, reasoning |-> << "Parse error:" >>]

\* The third pattern: a number is a score if it is in [0,1], a score out of
\* ten if it is in (1,10], and otherwise not a score.
PotentialScore(value) ==
    IF value <= 1000 THEN value
    ELSE IF value <= 10000 THEN value \div 10
    ELSE 500

\* The match of the first pattern that matches, with the score it gives:
\* float() of group 1, scaled for the third pattern.
ScoreMatch(text, labelled, leading, any) ==
    IF labelled # None
    THEN [score_match |-> labelled, scaled |-> FALSE]
    ELSE IF leading # None
    THEN [score_match |-> leading, scaled |-> FALSE]
    ELSE [score_match |-> any, scaled |-> TRUE]

\* The body of the try block once the score pattern has matched or not.
ParseMatched(text, found, parsed) ==
    IF parsed.raised THEN ParseError
    ELSE [raised    |-> FALSE,
          score     |-> ClampScore(IF found.score_match = None THEN 500
                                   ELSE IF found.scaled
                                   THEN PotentialScore(parsed.value)
                                   ELSE parsed.value),
          reasoning |-> Reasoning(text, found.score_match, SearchReasoning(text))]

\* float(score_match.group(1)), when there is a match.
MatchedFloat(text, found) ==
    IF found.score_match = None THEN [raised |-> FALSE, value |-> 500]
    ELSE Float(SubSeq(text, found.score_match[1].first, found.score_match[1].last))

\* The try block on the stripped reply.
ParseStripped(text, found) == ParseMatched(text, found, MatchedFloat(text, found))

\* The three patterns tried on the stripped reply.
ParseText(text) ==
    ParseStripped(text, ScoreMatch(text, SearchLabelledScore(text),
                                   SearchLeadingScore(text),
                                   SearchAnyNumber(text)))

\* EvaluationEngine._parse_evaluation_response
parse_evaluation_response(reply) == ParseText(Strip(reply))

----------------------------------------------------------------------------
(* The evaluation engine: the five metrics and their aggregate *)

\* What llm_service.raw_call gives a judged metric: it raises, or it
\* returns the reply of the judge.
RawCallRaised == [raised |-> TRUE, reply |-> <<>>]

Replied(reply) == [raised |-> FALSE, reply |-> reply]

\* EvaluationScore(name, score, reasoning, passed)
EvaluationScore(name, score, reasoning, passed) == [name |-> name, score |-> score, reasoning |-> reasoning, passed |-> passed]

\* A failed metric given the neutral score.
EvaluationFailed_Neutral(name) == EvaluationScore(name, 500, << "Evaluation failed:" >>, FALSE)

\* The except branch of a judged metric.
EvaluationFailed(name) == EvaluationScore(name, 0, << "Evaluation failed:" >>, FALSE)

\* A judged metric from the parsed reply: the score compared with the
\* threshold of the metric.
ScoredMetric(name, threshold, parsed) ==
    IF parsed.raised THEN EvaluationFailed(name)
    ELSE EvaluationScore(name, parsed.score, parsed.reasoning,
                         parsed.score >= threshold)

\* The body of a judged metric: the judge called, its reply parsed.
JudgedMetric(name, threshold, outcome) ==
    IF outcome.raised THEN EvaluationFailed(name)
    ELSE ScoredMetric(name, threshold, parse_evaluation_response(outcome.reply))

\* EvaluationEngine._evaluate_answer_relevance: passed = score >= 0.7
evaluate_answer_relevance(outcome) == JudgedMetric("answer_relevance", 700, outcome)

\* EvaluationEngine._evaluate_groundedness: passed = score >= 0.8
evaluate_groundedness(outcome) == JudgedMetric("groundedness", 800, outcome)

\* EvaluationEngine._evaluate_context_relevance: passed = score >= 0.7
evaluate_context_relevance(outcome) == JudgedMetric("context_relevance", 700, outcome)

\* EvaluationEngine._evaluate_entity_accuracy: passed = score >= 0.9
evaluate_entity_accuracy(outcome) == JudgedMetric("entity_accuracy", 900, outcome)

\* len(answer.split())
WordCount(text) ==
    Cardinality({ i \in DOMAIN text :
                    /\ text[i] \notin Whitespace
                    /\ i = 1 \/ text[i - 1] \in Whitespace })

\* The length of the answer tested before the disclaimer.
evaluate_answer_completeness_ShortFirst(answer) ==
    LET is_empty   == Len(Strip(answer)) = 0
        is_unknown == \/ Contains(<<"d","o","n","'","t"," ","k","n","o","w">>, Lower(answer))
                      \/ Contains(<<"d","o","n","'","t"," ","h","a","v","e">>, Lower(answer))
        is_short   == WordCount(answer) < 5
        score      == IF is_empty THEN 0
                      ELSE IF is_short THEN 600
                      ELSE IF is_unknown THEN 300
                      ELSE 900
        reasoning  == IF is_empty THEN << "Answer is empty" >>
                      ELSE IF is_unknown THEN << "Answer indicates information not available" >>
                      ELSE IF is_short THEN << "Answer is quite short" >>
                      ELSE << "Answer appears complete" >>
    IN  EvaluationScore("answer_completeness", score, reasoning, score >= 700)

\* EvaluationEngine._evaluate_answer_completeness
evaluate_answer_completeness(answer) ==
    LET is_empty   == Len(Strip(answer)) = 0
        is_unknown == \/ Contains(<<"d","o","n","'","t"," ","k","n","o","w">>, Lower(answer))
                      \/ Contains(<<"d","o","n","'","t"," ","h","a","v","e">>, Lower(answer))
        is_short   == WordCount(answer) < 5
        score      == IF is_empty THEN 0
                      ELSE IF is_unknown THEN 300
                      ELSE IF is_short THEN 600
                      ELSE 900
        reasoning  == IF is_empty THEN << "Answer is empty" >>
                      ELSE IF is_unknown THEN << "Answer indicates information not available" >>
                      ELSE IF is_short THEN << "Answer is quite short" >>
                      ELSE << "Answer appears complete" >>
    IN  EvaluationScore("answer_completeness", score, reasoning, score >= 700)

\* The results of the five metrics in the order evaluate appends them.
MetricResults(outcomes, answer) ==
    << evaluate_answer_relevance(outcomes[1]),
       evaluate_groundedness(outcomes[2]),
       evaluate_context_relevance(outcomes[3]),
       evaluate_entity_accuracy(outcomes[4]),
       evaluate_answer_completeness(answer) >>

\* sum(e.score for e in evaluations) / len(evaluations), in ten-thousandths.
AverageScore(results) ==
    (10 * SumSeq([i \in DOMAIN results |-> results[i].score])) \div Len(results)

\* all_passed taken from the average.
EvaluationResults_PassOnAverage(results, average) ==
    [evaluations |-> results, average_score |-> average, all_passed |-> average >= 7000]

\* EvaluationResults(evaluations, average_score, all_passed): the average
\* and the conjunction of the pass flags.
EvaluationResults(results, average) ==
    [evaluations   |-> results,
     average_score |-> average,
     all_passed    |-> \A i \in DOMAIN results : results[i].passed]

\* The aggregate of the five results.
Aggregate(results) == EvaluationResults(results, AverageScore(results))

\* EvaluationEngine.evaluate
evaluate(outcomes, answer) == Aggregate(MetricResults(outcomes, answer))

----------------------------------------------------------------------------
(* The evaluation engine called on its own *)

\* Longest judge reply handed to the parser on its own.
MaxReplyLen == 4

\* The symbols of those replies.
ReplySymbols == { "0", "1", "7", ".", ",", " ", "x", "SCORE:", "REASONING:" }

\* Every reply of at most n symbols.
RepliesUpTo(n) == UNION { [1..k -> ReplySymbols] : k \in 0..n }

\* The replies of the judge in a whole evaluation: scores around the
\* thresholds in the three formats, a bare 7 on the scale of ten, a reply
\* with no number, and a number with two points.
JudgeReplies ==
    { << "SCORE:", " ", "1", ",", " ", "REASONING:", " ", "x" >>,
      << "SCORE:", "0", ".", "9" >>,
      << "0", ".", "8", ",", " ", "REASONING:", "x" >>,
      << "7" >>,
      << "SCORE:", " ", "0", ".", "6" >>,
      << "x", " ", "x" >>,
      << "SCORE:", "1", ".", "2", ".", "3" >> }

JudgeOutcomes == { RawCallRaised } \cup { Replied(r) : r \in JudgeReplies }

\* The answers evaluated: blank, "I DON'T KNOW", "In Paris", "Amira went to
\* Paris", "Amira went to Paris twice", "We don't have any data".
EvaluatedAnswers ==
    { << " " >>,
      <<"I"," ","D","O","N","'","T"," ","K","N","O","W">>,
      <<"I","n"," ","P","a","r","i","s">>,
      <<"A","m","i","r","a"," ","w","e","n","t"," ","t","o"," ","P","a","r","i","s">>,
      <<"A","m","i","r","a"," ","w","e","n","t"," ","t","o"," ","P","a","r","i","s"," ","t","w","i","c","e">>,
      <<"W","e"," ","d","o","n","'","t"," ","h","a","v","e"," ","a","n","y"," ","d","a","t","a">> }

\* Parse calls before they return, for replies of at most n symbols.
ParseCalls(n) ==
    [method : { "parse" }, reply : RepliesUpTo(n), result : { None }]

\* Evaluate calls before they return: the outcome of each of the four
\* judged metrics, and the answer.
EvaluateCalls(answers) ==
    [method   : { "evaluate" },
     outcomes : [1..4 -> JudgeOutcomes],
     answer   : answers,
     result   : { None }]

\* _parse_evaluation_response returns.
ParseReply ==
    /\ call.method = "parse"
    /\ call.result = None
    /\ call' = [call EXCEPT !.result = Some(parse_evaluation_response(call.reply))]
    /\ UNCHANGED <<config_vars, cache_vars, pc, served, request,
                   question_embedding, initial_contexts, user_counts,
                   detect_vars, branch_vars, search_log, rerank_vars,
                   answer_text, evaluations, response, analysis,
                   indexing_state, indexing_result, ask_result, failed_at,
                   waiting, raced, cache_log>>

\* evaluate returns.
Evaluate ==
    /\ call.method = "evaluate"
    /\ call.result = None
    /\ call' = [call EXCEPT !.result = Some(evaluate(call.outcomes, call.answer))]
    /\ UNCHANGED <<config_vars, cache_vars, pc, served, request,
                   question_embedding, initial_contexts, user_counts,
                   detect_vars, branch_vars, search_log, rerank_vars,
                   answer_text, evaluations, response, analysis,
                   indexing_state, indexing_result, ask_result, failed_at,
                   waiting, raced, cache_log>>

\* The evaluation engine alone: one call, no request in progress.
InitEvaluation ==
    /\ index = {}
    /\ top_k_initial = TopKInitialDefault
    /\ workload = "every"
    /\ indexing_state = InitialIndexingState
    /\ FreshProcess
    /\ analysis = NoAnalysis
    /\ \/ call \in ParseCalls(MaxReplyLen)
       \/ call \in EvaluateCalls(EvaluatedAnswers)

NextEvaluation ==
    \/ ParseReply
    \/ Evaluate

SpecEvaluation == InitEvaluation /\ [][NextEvaluation]_vars
----------------------------------------------------------------------------
(* QueryAnalyzer called on its own *)

\* Largest num_sources handed to the analyzer.
MaxNumSources == 11

\* The average reranker scores handed to the scorer, in thousandths; some
\* lie outside [0, 1].
AvgRerankerScores == { -3000, 0, 500, 1000, 2500 }

\* Lists of distinct user names, as mention detection returns them.
MentionLists ==
    { s \in UNION { [1..n -> UserNames] : n \in 0..Cardinality(UserNames) } :
        \A i, j \in DOMAIN s : s[i] = s[j] => i = j }

\* The calls of analyze_query the model makes, before they return.
AnalyzeQueryCalls ==
    [method            : { "analyze_query" },
     question          : Questions,
     mentioned_users   : MentionLists,
     num_sources       : 0..MaxNumSources,
     sources_from_user : BOOLEAN,
     result            : { None }]

\* The calls of calculate_confidence_score the model makes, before they return.
CalculateConfidenceCalls ==
    [method                     : { "calculate_confidence_score" },
     num_sources                : 0..MaxNumSources,
     avg_reranker_score         : AvgRerankerScores,
     query_type                 : QueryTypes,
     sources_from_specific_user : BOOLEAN,
     result                     : { None }]

\* analyze_query returns.
AnalyzeQuery ==
    /\ analysis.method = "analyze_query"
    /\ analysis.result = None
    /\ analysis' = [analysis EXCEPT !.result =
                       Some(analyze_query(analysis.question,
                                          analysis.mentioned_users,
                                          analysis.num_sources,
                                          analysis.sources_from_user))]
    /\ UNCHANGED <<config_vars, loop_vars, ask_result, failed_at, cache_log, cache_vars, pc, served, request,
                   question_embedding, initial_contexts, user_counts,
                   detect_vars, branch_vars, search_log, rerank_vars,
                   answer_text, evaluations, response>>

\* calculate_confidence_score returns.
CalculateConfidence ==
    /\ analysis.method = "calculate_confidence_score"
    /\ analysis.result = None
    /\ analysis' = [analysis EXCEPT !.result =
                       Some(calculate_confidence_score(
                                analysis.num_sources,
                                analysis.avg_reranker_score,
                                analysis.query_type,
                                analysis.sources_from_specific_user))]
    /\ UNCHANGED <<config_vars, loop_vars, ask_result, failed_at, cache_log, cache_vars, pc, served, request,
                   question_embedding, initial_contexts, user_counts,
                   detect_vars, branch_vars, search_log, rerank_vars,
                   answer_text, evaluations, response>>

\* The analyzer alone: one call of one of its methods, no request in
\* progress.
InitAnalyzer ==
    /\ index = {}
    /\ top_k_initial = TopKInitialDefault
    /\ workload = "every"
    /\ indexing_state = InitialIndexingState
    /\ FreshProcess
    /\ call = NoCall
    /\ analysis \in AnalyzeQueryCalls \cup CalculateConfidenceCalls

NextAnalyzer ==
    \/ AnalyzeQuery
    \/ CalculateConfidence

SpecAnalyzer == InitAnalyzer /\ [][NextAnalyzer]_vars

----------------------------------------------------------------------------
(* The orchestrator *)

Next ==
    \/ RejectInvalidBody
    \/ AskEmptyQuestion
    \/ AskNotReady
    \/ ReceiveRequest
    \/ EmbedFails
    \/ InitialSearchFails
    \/ ProbeFails
    \/ NameEmbeddingFails
    \/ UserSearchFails
    \/ RerankFails
    \/ GenerateFails
    \/ EmbedQuestion
    \/ InitialSearch
    \/ InitializeUserNameCache
    \/ CacheAlreadyInitialized
    \/ DetectMentions
    \/ SingleUserRetrieval
    \/ MultiUserStart
    \/ MultiUserSearch
    \/ DominantUserRetrieval
    \/ GeneralRetrieval
    \/ Rerank
    \/ GenerateAnswer
    \/ EvaluateAnswer
    \/ EvaluationFails
    \/ BuildResponse

Spec == Init /\ [][Next]_vars

----------------------------------------------------------------------------
(* The service: requests while the index is filled *)

\* The index when the process starts: empty, or the first messages of the
\* API left there by an earlier process.
StartingIndexes ==
    { { ApiMessages[i] : i \in 1..n } : n \in 0..Min(MaxIndexSize, Len(ApiMessages)) }

\* The process as the module and __init__ leave it; indexing is not
\* started with the process (settings.indexing_enabled is False).
InitService ==
    /\ index \in StartingIndexes
    /\ top_k_initial = TopKInitialDefault
    /\ workload = "service"
    /\ indexing_state = InitialIndexingState
    /\ FreshProcess
    /\ analysis = NoAnalysis
    /\ call = NoCall

NextService ==
    \/ RunFullIndexing
    \/ ShouldIndexSkips
    \/ RejectInvalidBody
    \/ AskEmptyQuestion
    \/ AskNotReady
    \/ ReceiveRequest
    \/ RequestArrives
    \/ EmbedFails
    \/ InitialSearchFails
    \/ ProbeFails
    \/ NameEmbeddingFails
    \/ UserSearchFails
    \/ RerankFails
    \/ GenerateFails
    \/ EmbedQuestion
    \/ InitialSearch
    \/ InitializeUserNameCache
    \/ CacheAlreadyInitialized
    \/ DetectMentions
    \/ SingleUserRetrieval
    \/ MultiUserStart
    \/ MultiUserSearch
    \/ DominantUserRetrieval
    \/ GeneralRetrieval
    \/ Rerank
    \/ GenerateAnswer
    \/ BuildResponse

SpecService == InitService /\ [][NextService]_vars
----------------------------------------------------------------------------
(* main: GET /health over the ingestion state *)

\* `if state["last_error"]`: None and the empty string are both false.
Truthy(last_error) == last_error # None /\ last_error[1] # ""

\* The status is taken from in_progress.
HealthResponse_FromProgress(state) == [status |-> IF state.in_progress \/ state.indexed_messages = 0 THEN "degraded" ELSE "healthy", indexing_status |-> state]

\* HealthResponse(status, indexing_status, timestamp) as health builds it
\* from a copy of indexing_state.
HealthResponse(state) == [status |-> IF Truthy(state.last_error) THEN "degraded" ELSE "healthy", indexing_status |-> state]

\* GET /health, between two runs of the other handlers.
Health ==
    /\ LoopFree
    /\ call' = [method |-> "health", result |-> Some(HealthResponse(indexing_state))]
    /\ UNCHANGED <<config_vars, cache_vars, pc, served, request,
                   question_embedding, initial_contexts, user_counts,
                   detect_vars, branch_vars, search_log, rerank_vars,
                   answer_text, evaluations, response, analysis,
                   indexing_state, indexing_result, ask_result, failed_at,
                   waiting, raced, cache_log>>

\* The ingestion side of the service alone: indexing runs, index checks and
\* health checks, one handler at a time.
NextIngestion ==
    \/ RunFullIndexing
    \/ ShouldIndexSkips
    \/ Health

SpecIngestion == InitService /\ [][NextIngestion]_vars

----------------------------------------------------------------------------
(* data_ingestion: the loop of fetch_all_messages *)

\* params={"skip": skip, "limit": 100}, and skip += 100.
PageLimit == 100

max_consecutive_errors == 3

max_consecutive_skips == 10

retry_attempts == 2

\* Largest total the API reports, in half pages.
MaxApiTotal == 4

\* The totals the API reports, among them none at all.
ApiTotals == { (PageLimit \div 2) * k : k \in 0..MaxApiTotal }

\* The number of items of a page that is not empty.
PageSizes == { PageLimit \div 2, PageLimit }

\* The status codes of a response that raise_for_status turns into an
\* HTTPError; 500 stands for every code the loop does not name.
RetriedStatuses == { 400, 401, 402, 403, 405, 429 }

\* What a retry of the same range can bring: a page (empty when n is 0),
\* a 404, or any other exception.
RetryOutcomes ==
    { [kind |-> "page", n |-> n] : n \in {0} \cup PageSizes } \cup
    { [kind |-> "404", n |-> 0], [kind |-> "error", n |-> 0] }

\* The locals of fetch_all_messages before the loop, and what the API will
\* report as its total; last_status and retry_success are those of the last
\* pass through the handler of an HTTPError (0 when there was none), and
\* passes is the number of passes through the loop, modulo 2.
FetchStarted(api_total) ==
    [method             |-> "fetch",
     api_total          |-> api_total,
     skip               |-> 0,
     expected_total     |-> None,
     consecutive_errors |-> 0,
     consecutive_skips  |-> 0,
     fetched            |-> 0,
     last_status        |-> 0,
     retry_success      |-> FALSE,
     passes             |-> 0,
     status             |-> "running"]

\* break, then `return all_messages`.
Returned(f) == [f EXCEPT !.status = "returned"]

\* An exception reaches the outer except, which raises it again.
Raised(f) == [f EXCEPT !.status = "raised"]

\* The range is given up: the next one is tried unless too many were
\* skipped in a row.
SkipRange(f) ==
    IF f.consecutive_skips + 1 >= max_consecutive_skips
    THEN Returned([f EXCEPT !.consecutive_skips = @ + 1])
    ELSE [f EXCEPT !.consecutive_skips = @ + 1, !.skip = @ + PageLimit]

\* Lines 78-114: a page of n items arrives on the main path. The progress
\* line divides by expected_total.
PageReceived(f, n) ==
    LET total == IF f.expected_total = None THEN f.api_total
                 ELSE f.expected_total[1]
        known == [f EXCEPT !.expected_total = Some(total), !.last_status = 0,
                           !.retry_success = FALSE]
        added == [known EXCEPT !.fetched = @ + n, !.consecutive_errors = 0,
                               !.consecutive_skips = 0]
    IN  IF n = 0 THEN Returned(known)
        ELSE IF total = 0 THEN Raised(added)
        ELSE IF added.fetched >= total \/ added.skip >= total
        THEN Returned(added)
        ELSE [added EXCEPT !.skip = @ + PageLimit]

\* Lines 122-137: a 404 on the main path.
NotFound(f) == SkipRange([f EXCEPT !.last_status = 404, !.retry_success = FALSE])

\* The timeout is not counted.
TimedOut_Uncounted(f) == [f EXCEPT !.last_status = 0, !.retry_success = FALSE]

\* Lines 270-285: a timeout on the main path; the same range is tried
\* again.
TimedOut(f) ==
    LET counted == [f EXCEPT !.consecutive_errors = @ + 1, !.last_status = 0,
                             !.retry_success = FALSE]
    IN  IF counted.consecutive_errors >= max_consecutive_errors
        THEN Returned(counted)
        ELSE counted

\* Lines 169-221: one retry; stop tells whether the for loop is left.
Retry(f, outcome) ==
    IF outcome.kind = "page" /\ outcome.n = 0
    THEN [f    |-> [f EXCEPT !.retry_success = TRUE,
                             !.skip = IF f.expected_total = None THEN @
                                      ELSE f.expected_total[1]],
          stop |-> TRUE]
    ELSE IF outcome.kind = "page"
    THEN LET added == [f EXCEPT !.fetched = @ + outcome.n,
                                !.retry_success = TRUE,
                                !.consecutive_errors = 0]
         IN  IF f.expected_total = None
             THEN [f |-> added, stop |-> FALSE]
             ELSE IF added.fetched >= f.expected_total[1]
             THEN [f |-> added, stop |-> TRUE]
             ELSE [f |-> [added EXCEPT !.skip = @ + PageLimit], stop |-> TRUE]
    ELSE [f |-> f, stop |-> outcome.kind = "404"]

\* for retry_num in range(retry_attempts)
RECURSIVE RetryLoop(_, _, _)
RetryLoop(f, outcomes, retry_num) ==
    IF retry_num >= retry_attempts THEN f
    ELSE LET tried == Retry(f, outcomes[retry_num + 1])
         IN  IF tried.stop THEN tried.f
             ELSE RetryLoop(tried.f, outcomes, retry_num + 1)

\* Lines 224-265: what follows the retries.
AfterRetries(f) ==
    IF f.retry_success
    THEN IF f.expected_total = None THEN Raised(f)
         ELSE IF f.fetched >= f.expected_total[1] \/ f.skip >= f.expected_total[1]
         THEN Returned(f)
         ELSE f
    ELSE IF f.last_status = 402 THEN Returned(f)
    ELSE IF f.last_status = 403 /\ f.consecutive_errors >= max_consecutive_errors
    THEN Returned(f)
    ELSE SkipRange(f)

\* Lines 139-265: a status of the retried list on the main path.
ApiError(f, status_code, outcomes) ==
    LET counted == f.consecutive_errors + 1
        waited  == [f EXCEPT !.consecutive_errors =
                                 IF counted >= max_consecutive_errors THEN 0
                                 ELSE counted,
                             !.last_status = status_code,
                             !.retry_success = FALSE]
    IN  AfterRetries(RetryLoop(waited, outcomes, 0))

\* Lines 139 and 266-268: any other status is raised.
UnexpectedStatus(f) ==
    Raised([f EXCEPT !.consecutive_errors = @ + 1, !.last_status = 500,
                     !.retry_success = FALSE])

\* One pass of `while True` has brought the locals to `after`; the outer
\* except records the exception it raises again.
FetchPass(after) ==
    /\ call' = [after EXCEPT !.passes = (@ + 1) % 2]
    /\ indexing_state' =
          IF after.status = "raised"
          THEN [indexing_state EXCEPT !.last_error = Some("fetch error")]
          ELSE indexing_state
    /\ UNCHANGED <<config_vars, cache_vars, pc, served, request,
                   question_embedding, initial_contexts, user_counts,
                   detect_vars, branch_vars, search_log, rerank_vars,
                   answer_text, evaluations, response, analysis,
                   indexing_result, ask_result, failed_at, waiting, raced,
                   cache_log>>

Fetching == call.method = "fetch" /\ call.status = "running"

FetchPage ==
    /\ Fetching
    /\ \E n \in {0} \cup PageSizes : FetchPass(PageReceived(call, n))

FetchNotFound == Fetching /\ FetchPass(NotFound(call))

FetchTimeout == Fetching /\ FetchPass(TimedOut(call))

FetchApiError ==
    /\ Fetching
    /\ \E status_code \in RetriedStatuses :
       \E outcomes \in [1..retry_attempts -> RetryOutcomes] :
          FetchPass(ApiError(call, status_code, outcomes))

FetchUnexpectedStatus == Fetching /\ FetchPass(UnexpectedStatus(call))

\* fetch_all_messages called on its own, against an API of any total.
InitFetch ==
    /\ index = {}
    /\ top_k_initial = TopKInitialDefault
    /\ workload = "every"
    /\ indexing_state = InitialIndexingState
    /\ FreshProcess
    /\ analysis = NoAnalysis
    /\ call \in { FetchStarted(api_total) : api_total \in ApiTotals }

NextFetch ==
    \/ FetchPage
    \/ FetchNotFound
    \/ FetchTimeout
    \/ FetchApiError
    \/ FetchUnexpectedStatus

SpecFetch == InitFetch /\ [][NextFetch]_vars

\* Every request ends (timeout=30) and every sleep is finite: a pass of
\* the loop that has begun is completed.
SpecFetchFair == SpecFetch /\ WF_vars(NextFetch)


----------------------------------------------------------------------------
(* Properties of the retrieval branches *)

\* The searches of this request made with the question's embedding.
QuestionCalls == SelectSeq(search_log, LAMBDA c : c.vector # dummy_vector)

\* The candidates of step 2 and the call that fetched them.
GeneralCandidates == Search(index, question_embedding, top_k_initial, None)

GeneralCall == SearchCall(question_embedding, top_k_initial, None)

\* The exhaustive retrieval for one user and the call that fetches it.
UserCandidates(user_name) ==
    Search(index, question_embedding, ExhaustiveTopK, Some(user_name))

UserCall(user_name) == SearchCall(question_embedding, ExhaustiveTopK, Some(user_name))

\* The retrievals of the first n of the users, one after the other.
RECURSIVE ConcatCandidates(_, _)
ConcatCandidates(users, n) ==
    IF n = 0 THEN <<>>
    ELSE ConcatCandidates(users, n - 1) \o UserCandidates(users[n])

\* The question holds a keyword of the orchestrator's list.
IntentKeyword == is_user_specific(request.question)

\* The question holds a keyword of QueryAnalyzer.USER_SPECIFIC_KEYWORDS.
AnalyzerIntentKeyword ==
    AnyKeywordIn(USER_SPECIFIC_KEYWORDS, Lower(request.question))

\* Number of step-2 candidates written by a user.
GeneralCount(user_name) ==
    Cardinality({ i \in DOMAIN GeneralCandidates :
                    GeneralCandidates[i].message.user_name = user_name })

\* The users with more than half of the step-2 candidates.
DominantUsers ==
    { u \in UserNames : 2 * GeneralCount(u) > Len(GeneralCandidates) }

\* answer_question has finished branch selection and not yet reranked.
BranchDone == pc = "rerank"

\* The mention branch for the questions on which `intent` holds: the
\* candidates handed to reranking are the exhaustive retrievals (top_k 500,
\* filtered by user name) of the mentioned users concatenated in mention
\* order, fetched by exactly one search per mentioned user, in that order,
\* after the general search.
MentionRetrievalWhen(intent) ==
    (BranchDone /\ mentioned_users # <<>> /\ intent) =>
        /\ initial_contexts = ConcatCandidates(mentioned_users, Len(mentioned_users))
        /\ QuestionCalls =
               <<GeneralCall>> \o [i \in DOMAIN mentioned_users |->
                                      UserCall(mentioned_users[i])]

\* While the loop over several mentioned users runs, the calls made and the
\* contexts collected are those of a prefix of the mentioned users.
MentionLoopInOrder ==
    pc = "multi" =>
        /\ Len(mentioned_users) >= 2
        /\ Len(QuestionCalls) - 1 < Len(mentioned_users)
        /\ QuestionCalls =
               <<GeneralCall>> \o [i \in 1..(Len(QuestionCalls) - 1) |->
                                      UserCall(mentioned_users[i])]
        /\ all_user_contexts =
               ConcatCandidates(mentioned_users, Len(QuestionCalls) - 1)

\* C1: when mention detection returns at least one name and the question
\* holds a user-intent keyword (a keyword of the analyzer's user-intent set),
\* the general candidates are replaced by the exhaustive per-user retrievals
\* of the mentioned users, one search per user, in mention order.
C1_MentionBranchRetrieval ==
    /\ MentionRetrievalWhen(AnalyzerIntentKeyword)
    /\ MentionLoopInOrder

\* The same for the questions that hold a keyword of the orchestrator's own
\* list: on these the mention branch does what C1 says.
MentionBranchOnOwnKeywords ==
    /\ MentionRetrievalWhen(IntentKeyword)
    /\ MentionLoopInOrder

\* The dominant-user fallback for the questions on which `intent` holds:
\* with no mention, the candidates are replaced by the exhaustive retrieval
\* of the most frequent user exactly when the question holds an intent
\* keyword and that user has strictly more than half of the step-2
\* candidates; at half or less nothing is replaced.
DominantFallbackWhen(intent) ==
    (BranchDone /\ mentioned_users = <<>>) =>
        IF intent /\ DominantUsers # {}
        THEN \E u \in DominantUsers :
                /\ dominant_user = Some(u)
                /\ initial_contexts = UserCandidates(u)
                /\ QuestionCalls = <<GeneralCall, UserCall(u)>>
        ELSE /\ dominant_user = None
             /\ initial_contexts = GeneralCandidates
             /\ QuestionCalls = <<GeneralCall>>

\* C2: with no mention, a user-intent keyword (a keyword of the analyzer's
\* user-intent set) in the question and one user with strictly more than
\* half of the step-2 candidates, that user's exhaustive retrieval replaces
\* the candidates; at half or less nothing is replaced.
C2_DominantUserFallback == DominantFallbackWhen(AnalyzerIntentKeyword)

\* The same for the questions that hold a keyword of the orchestrator's own
\* list: on these the fallback does what C2 says.
DominantFallbackOnOwnKeywords == DominantFallbackWhen(IntentKeyword)

\* C3: when neither the mention branch nor the dominant-user branch applies,
\* in particular when the question holds no user-intent keyword, the only
\* search made with the question's embedding is the general one, the
\* candidates handed to reranking are the step-2 candidates unchanged, and
\* the reranked list holds exactly their messages.
C3_GeneralBranchNoOp ==
    LET neither == \/ ~IntentKeyword
                   \/ ~AnalyzerIntentKeyword
                   \/ (mentioned_users = <<>> /\ DominantUsers = {})
    IN  /\ (BranchDone /\ neither) =>
              /\ initial_contexts = GeneralCandidates
              /\ QuestionCalls = <<GeneralCall>>
        /\ (pc \in { "generate", "evaluate", "respond", "done" } /\ neither) =>
              /\ QuestionCalls = <<GeneralCall>>
              /\ Len(reranked_all) = Len(GeneralCandidates)
              /\ { reranked_all[i].message : i \in DOMAIN reranked_all }
                     = { GeneralCandidates[i].message : i \in DOMAIN GeneralCandidates }

\* C3 witness: users are mentioned but the question holds no intent keyword,
\* and the general candidates are about to be reranked.
C3_Witness ==
    /\ BranchDone
    /\ mentioned_users # <<>>
    /\ ~is_user_specific_query
    /\ initial_contexts # <<>>
    /\ initial_contexts = GeneralCandidates

\* C4: the orchestrator's keyword test agrees with the analyzer's
\* user-intent keyword set on every question.
C4_SameKeywordPredicate ==
    pc \in { "branch", "multi", "rerank", "generate", "evaluate", "respond", "done" } =>
        (is_user_specific_query <=> AnalyzerIntentKeyword)

----------------------------------------------------------------------------
(* Properties of mention detection *)

\* Mention detection has run for the request in progress.
Detected ==
    pc \in { "branch", "multi", "rerank", "generate", "evaluate", "respond", "done" }

CachedNames ==
    { user_name_embeddings_cache[i][1] : i \in DOMAIN user_name_embeddings_cache }

\* The similarity of the question to a cached name.
CachedSimilarity(user_name) ==
    LET i == CHOOSE k \in DOMAIN user_name_embeddings_cache :
                 user_name_embeddings_cache[k][1] = user_name
    IN  CosineSimilarity(question_embedding[1], user_name_embeddings_cache[i][2])

\* The highest similarity of a cached name (of a non-empty cache).
TopSimilarity ==
    CHOOSE s \in { CachedSimilarity(n) : n \in CachedNames } :
        \A n \in CachedNames : s >= CachedSimilarity(n)

\* C5: the detected mentions are exactly the cached names whose similarity
\* is at least max(0.5, top - 0.2), each once, in descending order of
\* similarity; they are none when the cache is empty or top is below 0.5.
C5_MentionThreshold ==
    Detected =>
        /\ \A i, j \in DOMAIN mentioned_users :
              mentioned_users[i] = mentioned_users[j] => i = j
        /\ IF CachedNames = {}
           THEN mentioned_users = <<>>
           ELSE /\ Range(mentioned_users) =
                      { n \in CachedNames :
                          /\ CachedSimilarity(n) >= 50
                          /\ CachedSimilarity(n) >= TopSimilarity - 20 }
                /\ \A i, j \in DOMAIN mentioned_users :
                      i < j => CachedSimilarity(mentioned_users[i])
                                   >= CachedSimilarity(mentioned_users[j])
                /\ TopSimilarity < 50 => mentioned_users = <<>>

\* C5 witness: of three cached names two are accepted and the third, below
\* the threshold, is not.
C5_Witness ==
    /\ pc = "branch"
    /\ Cardinality(CachedNames) = 3
    /\ Len(mentioned_users) = 2
    /\ \E n \in CachedNames :
          n \notin Range(mentioned_users) /\ CachedSimilarity(n) < TopSimilarity - 20

----------------------------------------------------------------------------
(* Properties of the QueryAnalyzer *)

\* analyze_query has returned.
Classified == analysis.method = "analyze_query" /\ analysis.result # None

\* calculate_confidence_score has returned.
Scored == analysis.method = "calculate_confidence_score" /\ analysis.result # None

\* C6: the query type is the label of the first rule that matches, in the
\* order: two or more mentioned users, one mentioned user with filtered
\* sources, comparison keyword, factual keyword, user-intent keyword, general.
C6_ClassifyPriority ==
    Classified =>
        LET q          == Lower(analysis.question)
            n          == Len(analysis.mentioned_users)
            t          == analysis.result[1].query_type
            byMentions == n >= 2 \/ (n = 1 /\ analysis.sources_from_user)
            comparison == AnyKeywordIn(COMPARISON_KEYWORDS, q)
            factual    == AnyKeywordIn(FACTUAL_KEYWORDS, q)
            intent     == AnyKeywordIn(USER_SPECIFIC_KEYWORDS, q)
        IN  /\ n >= 2 => t = "multi_user"
            /\ (n = 1 /\ analysis.sources_from_user) => t = "user_specific"
            /\ (~byMentions /\ comparison) => t = "comparison"
            /\ (~byMentions /\ ~comparison /\ factual) => t = "factual"
            /\ (~byMentions /\ ~comparison /\ ~factual /\ intent) => t = "user_specific"
            /\ (~byMentions /\ ~comparison /\ ~factual /\ ~intent) => t = "general"

\* C6 witness: a question with a comparison keyword and two mentioned users
\* has been classified.
C6_Witness ==
    /\ Classified
    /\ analysis.question = QCompare
    /\ Len(analysis.mentioned_users) = 2
    /\ analysis.result[1].query_type = "multi_user"

\* C7: the confidence is in [0, 1] for every input.
C7_ConfidenceInUnitInterval ==
    Scored =>
        /\ analysis.result[1].confidence >= 0
        /\ analysis.result[1].confidence <= 10000

\* C7 witness: a score for no sources and an average reranker score below 0,
\* where the unclamped sum is negative.
C7_Witness ==
    /\ Scored
    /\ analysis.num_sources = 0
    /\ analysis.avg_reranker_score < 0
    /\ analysis.result[1].confidence = 0

\* C8: the confidence is the clamped sum of 0.3 x the source-count bucket,
\* 0.3 x min(average reranker score, 1), 0.2 x the query specificity and
\* 0.2 x the consistency; the source-count contribution is 0.3 from ten
\* sources on and 0.06 up to one source.
C8_ConfidenceFormula ==
    Scored =>
        LET n       == analysis.num_sources
            avg     == analysis.avg_reranker_score
            t       == analysis.query_type
            r       == analysis.result[1]
            bucket  == CASE n >= 10 -> 100
                         [] n >= 5 /\ n < 10 -> 80
                         [] n >= 3 /\ n < 5 -> 60
                         [] n = 2 -> 40
                         [] n < 2 -> 20
            quality == IF avg < 1000 THEN avg ELSE 1000
            specif  == CASE t = "user_specific" /\ analysis.sources_from_specific_user -> 95
                         [] t = "user_specific" /\ ~analysis.sources_from_specific_user -> 70
                         [] t = "factual" -> 75
                         [] t = "comparison" -> 80
                         [] OTHER -> 60
            consist == IF n < 2 THEN 40 ELSE 80
            total   == 30 * bucket + 3 * quality + 20 * specif + 20 * consist
        IN  /\ r.factors.source_count = 30 * bucket
            /\ r.factors.reranker_quality = 3 * quality
            /\ r.factors.query_specificity = 20 * specif
            /\ r.factors.consistency = 20 * consist
            /\ r.confidence = IF total < 0 THEN 0
                              ELSE IF total > 10000 THEN 10000 ELSE total
            /\ n >= 10 => r.factors.source_count = 3000
            /\ n <= 1 => r.factors.source_count = 600

\* C8 witness: a score for ten sources, whose source-count contribution is
\* the full 0.3.
C8_Witness ==
    /\ Scored
    /\ analysis.num_sources = 10
    /\ analysis.result[1].factors.source_count = 3000
    /\ analysis.result[1].confidence > 0

----------------------------------------------------------------------------
(* Properties of the response and of reranking *)

\* The mean reranker score of the retained contexts, in thousandths.
MeanRerankerScore ==
    IF reranked_contexts = <<>> THEN 0
    ELSE SumSeq([i \in DOMAIN reranked_contexts |->
                    Thousandths(reranked_contexts[i].reranker_score[1])])
             \div Len(reranked_contexts)

\* Retrieval was filtered to exactly one user.
FilteredToOneUser == dominant_user # None

\* C9: every response returned carries a confidence in [0, 1], the one the
\* scorer computes from the retained count, the mean reranker score of the
\* retained contexts, the query type and whether retrieval was filtered to
\* one user, together with query metadata and tips.
C9_ResponseCarriesConfidence ==
    (pc = "done" /\ response # None) =>
        LET r          == response[1]
            query_type == determine_query_type(Lower(request.question),
                              mentioned_users, FilteredToOneUser)
        IN  /\ "confidence" \in DOMAIN r
            /\ "query_metadata" \in DOMAIN r
            /\ "tips" \in DOMAIN r
            /\ r.confidence >= 0
            /\ r.confidence <= 10000
            /\ r.confidence =
                   calculate_confidence_score(Len(reranked_contexts),
                       MeanRerankerScore, query_type, FilteredToOneUser).confidence

\* Reranking has run for the request in progress.
Reranked == pc \in { "generate", "evaluate", "respond", "done" }

\* C10: the reranked list holds each of the N candidates once, in descending
\* order of reranker score, with ranks 1..N along that order.
C10_RerankSortedRanked ==
    Reranked =>
        /\ Len(reranked_all) = Len(initial_contexts)
        /\ { reranked_all[i].message : i \in DOMAIN reranked_all }
               = { initial_contexts[i].message : i \in DOMAIN initial_contexts }
        /\ \A i \in DOMAIN reranked_all :
              /\ reranked_all[i].reranker_score # None
              /\ reranked_all[i].rank = i
        /\ \A i, j \in DOMAIN reranked_all :
              i < j => reranked_all[i].reranker_score[1]
                           >= reranked_all[j].reranker_score[1]

\* C10 witness: three candidates fetched for several users, with different
\* scores, have been put into another order by the reranker.
C10_Witness ==
    /\ pc = "generate"
    /\ Len(reranked_all) = 3
    /\ Len(target_users) >= 2
    /\ reranked_all[1].reranker_score # reranked_all[3].reranker_score
    /\ \E i \in DOMAIN reranked_all :
          reranked_all[i].message # initial_contexts[i].message
----------------------------------------------------------------------------
(* Properties of truncation and of score normalisation *)

\* A rerank-and-truncate call has returned.
Truncated == call.method = "rerank_truncate" /\ call.result # None

Normalized == call.method = "normalize" /\ call.result # None

----------------------------------------------------------------------------
(* Properties of failures *)

\* The stages of answer_question that call the embedder, the vector index,
\* the reranker or the generator.
UpstreamStages ==
    { "embed", "search", "cache", "branch", "multi", "rerank", "generate" }

\* An exception of a stage has ended the last request.
Aborted == pc = "failed"

\* After an abort there is no response and no answer, and the client got
\* a 500 with the fixed detail; a 500 is sent for an abort only.
AbortedMeans500 ==
    /\ Aborted =>
          /\ failed_at # None
          /\ failed_at[1] \in UpstreamStages
          /\ response = None
          /\ answer_text = None
          /\ evaluations = None
          /\ ask_result = Some(HTTPResult(500, "Internal server error"))
    /\ (ask_result # None /\ ask_result[1].status_code = 500) => Aborted

\* A step that aborts starts in an upstream stage, and the only step after
\* an abort is the start of another request.
AbortEndsRequest ==
    /\ (Aborted' /\ ~Aborted) =>
          /\ pc \in UpstreamStages
          /\ failed_at' = Some(pc)
          /\ response' = None
    /\ Aborted => pc' \in { "failed", "idle", "embed" }
    /\ (Aborted /\ pc' = "embed") => request' \in Bodies(workload) /\ answer_text' = None

\* C13: an exception in embedding, vector search, reranking or generation
\* aborts the request: no answer is returned, not even a partial one, no
\* later stage runs, and POST /ask answers 500 with a generic detail.
C13_FailureAborts == []AbortedMeans500 /\ [][AbortEndsRequest]_vars

\* The generator raised after retrieval and reranking had succeeded.
C13_Witness ==
    /\ Aborted
    /\ failed_at = Some("generate")
    /\ ask_result[1].status_code = 500

\* The evaluation engine raised in the request in progress.
EvaluationRaised == failed_at = Some("evaluate")

\* The response answer_question builds when the engine returns `results`.
ResponseWith(results) ==
    answer_response(request, answer_text[1], reranked_contexts, results)

\* C14: when evaluations are requested and the evaluation engine raises,
\* the request still succeeds: the response carries the generated answer,
\* every other field is what it is when the engine returns, and the
\* evaluations are absent.
C14_EvaluationFailureRecovered ==
    EvaluationRaised =>
        /\ request.include_evaluations
        /\ pc \in { "respond", "done" }
        /\ answer_text # None
        /\ evaluations = None
        /\ pc = "done" =>
              /\ ask_result = Some(HTTPResult(200, ""))
              /\ response # None
              /\ response[1].answer = answer_text[1]
              /\ response[1].evaluations = None
              /\ response[1] =
                     [ResponseWith(Some("results")) EXCEPT !.evaluations = None]

\* A request with sources and evaluations was answered although the engine
\* raised.
C14_Witness ==
    /\ EvaluationRaised
    /\ pc = "done"
    /\ request.include_sources
    /\ response # None
    /\ response[1].sources # None
    /\ response[1].sources[1] # <<>>
    /\ ask_result[1].status_code = 200


----------------------------------------------------------------------------
(* Properties of the user-name cache over the life of the process *)

\* The user names of the messages now in the index.
IndexedNames == { m.user_name : m \in index }

\* Names that entered the index after the cache was initialised.
StaleNames == IF cache_initialized THEN IndexedNames \ CachedNames ELSE {}

\* The completed runs of the initialisation sequence.
CacheBuilds == SelectSeq(cache_log, LAMBDA entry : entry = "built")

\* Once marked initialised the cache stays as it is, whatever the step.
CacheFrozen ==
    cache_initialized =>
        /\ cache_initialized'
        /\ user_name_embeddings_cache' = user_name_embeddings_cache
        /\ all_user_names' = all_user_names
        /\ Len(CacheBuilds') = Len(CacheBuilds)

\* Mention detection returns no name that entered the index after the
\* initialisation.
NoStaleMention ==
    /\ Len(CacheBuilds) <= 1
    /\ Detected => Range(mentioned_users) \cap StaleNames = {}

\* C15: the cache is built at most once: once it is marked initialised no
\* request and no change of the index changes its names, and a name added
\* to the index afterwards is never returned by mention detection.
C15_CacheBuiltOnce == []NoStaleMention /\ [][CacheFrozen]_vars

\* A name entered the index after the initialisation, the question of a
\* later request is as close to it as a question can be, and it is not
\* detected.
C15_Witness ==
    /\ pc = "branch"
    /\ Len(cache_log) = 2
    /\ cache_log[2] = "skipped"
    /\ \E stale \in StaleNames :
          /\ \A e \in QuestionEmbeddings :
                CosineSimilarity(question_embedding[1], NameEmbedding(stale))
                    >= CosineSimilarity(e, NameEmbedding(stale))
          /\ CosineSimilarity(question_embedding[1], NameEmbedding(stale)) >= 50
          /\ stale \notin Range(mentioned_users)

\* The request in progress is past the cache stage of answer_question.
PastCacheStage == pc = "detect" \/ Detected

\* The cache was initialised from a probe that returned no message.
InitializedEmpty == cache_initialized /\ user_name_embeddings_cache = <<>>

\* A request that passes the cache stage leaves the cache marked initialised;
\* initialised from an empty probe it holds no entry and no mention is
\* detected.
EmptyCacheDetectsNothing ==
    /\ PastCacheStage => cache_initialized
    /\ InitializedEmpty =>
          /\ CachedNames = {}
          /\ Len(CacheBuilds) = 1
          /\ Detected => mentioned_users = <<>>

\* Once initialised empty the cache stays empty and is not built again.
EmptyCacheStaysEmpty ==
    InitializedEmpty =>
        /\ InitializedEmpty'
        /\ Len(CacheBuilds') = Len(CacheBuilds)

\* C16: if the probe returns no message when the cache is first
\* initialised, the cache is marked initialised with zero entries, the
\* initialisation is never attempted again, and every later request detects
\* zero mentions even after names are added to the index.
C16_EmptyCacheIsFinal == []EmptyCacheDetectsNothing /\ [][EmptyCacheStaysEmpty]_vars

\* The cache was initialised on an empty index, messages were indexed
\* afterwards, and a later question that matches an indexed name exactly
\* detects no mention.
C16_Witness ==
    /\ InitializedEmpty
    /\ pc = "branch"
    /\ cache_log = << "built", "skipped" >>
    /\ mentioned_users = <<>>
    /\ \E m \in index :
          CosineSimilarity(question_embedding[1], NameEmbedding(m.user_name)) = 100

\* The request in progress overlapped a first-time request that went on to
\* run the initialisation sequence, and is itself past the cache stage.
RacedPastCacheStage ==
    /\ raced
    /\ PastCacheStage
    /\ Len(cache_log) >= 2
    /\ cache_log[Len(cache_log) - 1] = "built"

\* The state a single initialisation produces: marked initialised, one
\* embedding for each sampled name.
SingleInitialization ==
    /\ cache_initialized
    /\ CachedNames = all_user_names
    /\ Len(user_name_embeddings_cache) = Cardinality(all_user_names)
    /\ \A i \in DOMAIN user_name_embeddings_cache :
          user_name_embeddings_cache[i][2] =
              NameEmbedding(user_name_embeddings_cache[i][1])

----------------------------------------------------------------------------
(* Properties of POST /ask *)

\* The handler of the last request has returned with this status.
Answered(status_code) == ask_result # None /\ ask_result[1].status_code = status_code

\* A request is inside answer_question: it passed the validation and the
\* readiness test, and the index has not changed since.
InAnswerQuestion == ~LoopFree

\* C18: POST /ask answers 503 whenever the index holds no message, answers
\* 400 for an empty or whitespace-only question, and a 400 or 503 raised in
\* the handler is never turned into a 500.
C18_AskStatusCodes ==
    /\ InAnswerQuestion => index # {}
    /\ (ask_result # None /\ EmptyQuestion(request)) => Answered(400)
    /\ Answered(500) => failed_at # None /\ ~EmptyQuestion(request)

\* The part of C18 about the empty index alone.
C18_EmptyIndexRefused == InAnswerQuestion => index # {}

\* The part of C18 about the empty question alone.
C18_EmptyQuestionRefused == (ask_result # None /\ EmptyQuestion(request)) => Answered(400)

\* The part of C18 that holds: a 500 comes from a stage of answer_question
\* that raised, never from a request turned away with 400 or 503.
C18_RefusalsKeepTheirStatus ==
    /\ Answered(500) => failed_at # None /\ ~EmptyQuestion(request)
    /\ (Answered(400) \/ Answered(503) \/ Answered(422)) => pc = "idle" /\ failed_at = None

----------------------------------------------------------------------------
(* Properties of the evaluation engine *)

\* An evaluate call has returned.
Evaluated == call.method = "evaluate" /\ call.result # None

\* The five metrics in the order of the results, each with its threshold
\* in thousandths.
MetricThresholds ==
    << <<"answer_relevance", 700>>, <<"groundedness", 800>>,
       <<"context_relevance", 700>>, <<"entity_accuracy", 900>>,
       <<"answer_completeness", 700>> >>

\* The metrics of the returned results that are below their threshold.
FailedMetrics ==
    { i \in DOMAIN MetricThresholds :
        call.result[1].evaluations[i].score < MetricThresholds[i][2] }

\* C19: average_score is the mean of the five metric scores, each pass flag
\* is score >= the threshold of its metric, and all_passed is the
\* conjunction of the five flags: false whenever one metric is below its
\* threshold, however high the average.
C19_EvaluationAggregate ==
    Evaluated =>
        LET results == call.result[1]
            metrics == results.evaluations
        IN  /\ Len(metrics) = 5
            /\ \A i \in 1..5 :
                  /\ metrics[i].name = MetricThresholds[i][1]
                  /\ metrics[i].passed = (metrics[i].score >= MetricThresholds[i][2])
            /\ 5 * results.average_score =
                  10 * (metrics[1].score + metrics[2].score + metrics[3].score
                            + metrics[4].score + metrics[5].score)
            /\ results.all_passed = (\A i \in 1..5 : metrics[i].passed)
            /\ FailedMetrics # {} => ~results.all_passed

\* Entity accuracy alone is below its threshold, at 0.8, and the average is
\* 0.94: all_passed is false.
C19_Witness ==
    /\ Evaluated
    /\ FailedMetrics = { 4 }
    /\ call.result[1].evaluations[4].score = 800
    /\ call.result[1].average_score = 9400
    /\ ~call.result[1].all_passed

\* A parse call has returned.
Parsed == call.method = "parse" /\ call.result # None

\* The reply holds no digit: no score can be parsed from it.
NoDigit(reply) == \A k \in DOMAIN reply : reply[k] \notin Digits

\* The reasoning says that the parse failed.
Annotated(reasoning) == reasoning # <<>> /\ reasoning[1] = "Parse error:"

\* The judged metrics of an evaluate call whose judge replied without a
\* digit.
UnparsedMetrics ==
    { i \in 1..4 : /\ ~call.outcomes[i].raised
                   /\ NoDigit(call.outcomes[i].reply) }

\* C20: the parse of a judge reply never raises and yields a score in
\* [0,1]; a reply from which no score can be parsed gives 0.5 with the
\* reasoning annotated, and the other metrics of the evaluation are still
\* computed.
C20_UnparsableAnnotated ==
    /\ Parsed =>
          /\ ~call.result[1].raised
          /\ call.result[1].score \in 0..1000
          /\ NoDigit(call.reply) =>
                /\ call.result[1].score = 500
                /\ Annotated(call.result[1].reasoning)
    /\ Evaluated =>
          /\ Len(call.result[1].evaluations) = 5
          /\ \A i \in UnparsedMetrics :
                /\ call.result[1].evaluations[i].score = 500
                /\ Annotated(call.result[1].evaluations[i].reasoning)

\* The part of C20 that holds: the parse never raises, the score is in
\* [0,1], a reply without a digit gives 0.5, a number float() rejects gives
\* 0.5 with the reasoning annotated, and an evaluation returns its five
\* metrics whatever the replies.
C20_ParseNeverRaises ==
    /\ Parsed =>
          /\ ~call.result[1].raised
          /\ call.result[1].score \in 0..1000
          /\ NoDigit(call.reply) => call.result[1].score = 500
          /\ Annotated(call.result[1].reasoning) => call.result[1].score = 500
    /\ Evaluated =>
          /\ Len(call.result[1].evaluations) = 5
          /\ \A i \in UnparsedMetrics : call.result[1].evaluations[i].score = 500

\* A reply with a number that float() rejects was annotated.
C20_ParseErrorReached ==
    /\ Parsed
    /\ ~NoDigit(call.reply)
    /\ Annotated(call.result[1].reasoning)

\* What the answer of an evaluate call is: blank, holding a disclaimer, its
\* number of words.
AnswerIsEmpty == \A k \in DOMAIN call.answer : call.answer[k] \in Whitespace

AnswerHasDisclaimer ==
    \/ Contains(<<"d","o","n","'","t"," ","k","n","o","w">>, Lower(call.answer))
    \/ Contains(<<"d","o","n","'","t"," ","h","a","v","e">>, Lower(call.answer))

AnswerWords == WordCount(call.answer)

\* The fifth result of an evaluate call that has returned.
Completeness == call.result[1].evaluations[5]

\* C21: answer_completeness needs no external call and is 0.0 for an empty
\* answer, else 0.3 for a disclaimer, else 0.6 for fewer than five words,
\* else 0.9; it passes only for a non-empty answer of at least five words
\* without a disclaimer.
C21_CompletenessPrecedence ==
    Evaluated =>
        /\ Completeness.name = "answer_completeness"
        /\ Completeness.score =
              IF AnswerIsEmpty THEN 0
              ELSE IF AnswerHasDisclaimer THEN 300
              ELSE IF AnswerWords < 5 THEN 600
              ELSE 900
        /\ Completeness.passed =
              (~AnswerIsEmpty /\ ~AnswerHasDisclaimer /\ AnswerWords >= 5)

\* Every judge call raised and the answer is a disclaimer of fewer than
\* five words: completeness is still scored, 0.3.
C21_Witness ==
    /\ Evaluated
    /\ \A i \in 1..4 : call.outcomes[i].raised
    /\ AnswerHasDisclaimer
    /\ AnswerWords < 5
    /\ Completeness.score = 300
    /\ ~Completeness.passed

\* The reply is the SCORE tag, at most one space, and a run of digits that
\* reads as a number greater than 1.
TaggedAboveOne(reply) ==
    \E s \in {2, 3} :
        /\ s <= Len(reply)
        /\ reply[1] = "SCORE:"
        /\ s = 3 => reply[2] = " "
        /\ \A k \in s..Len(reply) : reply[k] \in Digits
        /\ IntValue(SubSeq(reply, s, Len(reply))) > 1

\* C23: a number outside [0,1] given by the judge is never clamped
\* silently: the reasoning of the result records the degradation.
C23_OutOfRangeRecorded ==
    (Parsed /\ TaggedAboveOne(call.reply)) =>
        Annotated(call.result[1].reasoning)

\* The judged metrics of an evaluate call whose judge call raised.
RaisedMetrics == { i \in 1..4 : call.outcomes[i].raised }

\* C24: evaluate returns the five metrics in their fixed order whatever
\* subset of the four judge calls raises; a metric whose call raised has
\* score 0.0 and has not passed, and every other metric is what its own
\* reply, or the answer alone, gives.
C24_JudgeCallsIndependent ==
    Evaluated =>
        /\ Len(call.result[1].evaluations) = 5
        /\ \A i \in 1..5 : call.result[1].evaluations[i].name = MetricThresholds[i][1]
        /\ \A i \in RaisedMetrics :
              /\ call.result[1].evaluations[i].score = 0
              /\ ~call.result[1].evaluations[i].passed
        /\ \A i \in (1..4) \ RaisedMetrics :
              /\ call.result[1].evaluations[i].score =
                    parse_evaluation_response(call.outcomes[i].reply).score
              /\ call.result[1].evaluations[i].passed =
                    (call.result[1].evaluations[i].score >= MetricThresholds[i][2])
        /\ call.result[1].evaluations[5] = evaluate_answer_completeness(call.answer)

\* The second and fourth judge calls raised; the first and third metrics
\* passed with the scores of their replies.
C24_Witness ==
    /\ Evaluated
    /\ RaisedMetrics = {2, 4}
    /\ call.result[1].evaluations[1].score = 1000
    /\ call.result[1].evaluations[3].score = 900
    /\ call.result[1].evaluations[1].passed
    /\ call.result[1].evaluations[3].passed
    /\ call.result[1].evaluations[2].score = 0
    /\ ~call.result[1].evaluations[4].passed

\* GET /health has answered.
HealthAnswered == call.method = "health" /\ call.result # None

C30_SuccessLeavesNoError ==
    indexing_result = Some(TRUE) =>
        /\ indexing_state.last_error = None
        /\ ~indexing_state.in_progress
        /\ HealthResponse(indexing_state).status = "healthy"

\* C25: POST /ask never answers 503 while the vector index holds a
\* message, whether or not an indexing run or an index check has taken
\* place since the process started.
C25_NoRefusalOverIndexedCorpus == [][AskNotReady => index = {}]_vars

\* The last request was aborted at the cache stage.
CacheStageFailed == failed_at = Some("cache")

\* C26: when the initialisation of the cache fails, at the probe search or
\* at the embedding of the names, the request is aborted with the cache
\* not marked initialised and holding no entry, and the next request that
\* reaches the cache stage runs the initialisation again.
C26_FailedInitializationRetried ==
    /\ CacheStageFailed =>
          /\ Aborted
          /\ ask_result = Some(HTTPResult(500, "Internal server error"))
          /\ response = None
          /\ ~cache_initialized
          /\ user_name_embeddings_cache = <<>>
    /\ \A i \in DOMAIN cache_log :
          (cache_log[i] = "failed" /\ i < Len(cache_log)) =>
              cache_log[i + 1] \in {"built", "failed"}

\* The initialisation failed in one request and the next request ran it
\* again and built the cache.
C26_Witness ==
    /\ cache_log = <<"failed", "built">>
    /\ cache_initialized
    /\ user_name_embeddings_cache # <<>>

FetchEnded == call.method = "fetch" /\ call.status \in {"returned", "raised"}

\* C28: whatever the API answers to each request, fetch_all_messages ends:
\* it returns the messages fetched so far or raises.
C28_FetchTerminates == <>FetchEnded

\* The fetch returned what it had after ten ranges skipped in a row.
C28_Witness ==
    /\ call.method = "fetch"
    /\ call.status = "returned"
    /\ call.consecutive_skips = max_consecutive_skips
    /\ call.fetched > 0

\* C29: when a 403 has persisted through the retries of a range and three
\* consecutive errors have accumulated, the fetch stops with the messages
\* fetched so far; the range is not skipped.
C29_PersistentForbiddenStops ==
    [][(/\ Fetching
        /\ call.consecutive_errors + 1 >= max_consecutive_errors
        /\ call'.last_status = 403
        /\ ~call'.retry_success)
          => (call'.status = "returned" /\ call'.skip = call.skip)]_vars
====
